---- MODULE Spec2Model ----
(***************************************************************************)
(* Consignment-number allocation of OCL-SERVICE: the admin routes          *)
(* (src/unnamed/part_000) and the office routes                            *)
(* (src/backend/routes/office.js) over the ConsignmentAssignment and       *)
(* ConsignmentUsage collections.                                           *)
(*                                                                         *)
(* Spec      every request runs to completion before the next one starts.  *)
(* SpecConc  every await of a handler is a step of its own, so the         *)
(*           database calls of concurrent requests interleave.             *)
(* SpecRace  SpecConc from the empty store, fewer bodies, more requests.   *)
(* SpecDraw  one client draws its range: next, use, next, use, ...         *)
(***************************************************************************)
EXTENDS Integers, Sequences, FiniteSets, TLC

VARIABLES assignments, usages, inflight, last, reqNo, invoices, orders, pricings

vars == <<assignments, usages, inflight, last, reqNo, invoices, orders, pricings>>

(***************************************************************************)
(* Bounds                                                                  *)
(***************************************************************************)
\* numbers MinConsignmentNumber - 1 .. MinConsignmentNumber + MaxOffset
MaxOffset == 1
\* requests received in one behaviour of Spec
MaxRequests == 3
\* requests received in one behaviour of SpecConc
MaxConcRequests == 2
\* requests in flight at once in SpecConc
MaxInflight == 2

(***************************************************************************)
(* Constants of the program                                                *)
(***************************************************************************)
MinConsignmentNumber == 871026571

None == "none"
\* '' / undefined / 0 in a request body: falsy in the handlers' "!field" tests
Missing == 0

Corporates == {"c1", "c2"}
OfficeUsers == {"u1"}
\* ids a client may send; an office user's id is no CorporateData document
\* and a corporate's id is no OfficeUser document
Ids == Corporates \cup OfficeUsers

Numbers == (MinConsignmentNumber - 1) .. (MinConsignmentNumber + MaxOffset)
\* the numbers validateRange accepts as a startNumber
EndNumbers == MinConsignmentNumber .. (MinConsignmentNumber + MaxOffset)

\* the ranges a client may send: every range validateRange accepts, one with
\* startNumber > endNumber and one that starts below the minimum; the numbers
\* of a body are integers, which parseInt returns as they are
ValidRanges == {r \in EndNumbers \X EndNumbers : r[1] <= r[2]}
RangeInputs ==
    ValidRanges \cup {<<MinConsignmentNumber + 1, MinConsignmentNumber>>,
                      <<MinConsignmentNumber - 1, MinConsignmentNumber>>}

\* handlers that may be between two awaits at the same time
Slots == 1 .. MaxInflight

(***************************************************************************)
(* Schema defaults (models/ConsignmentAssignment.js)                       *)
(***************************************************************************)
DefaultAssignmentType == "corporate"
DefaultIsActive == TRUE

(***************************************************************************)
(* Model statics                                                           *)
(***************************************************************************)
\* TRUE when validateRange returns, FALSE when it throws
validateRange(startNumber, endNumber) ==
    ~(startNumber > endNumber \/ startNumber < MinConsignmentNumber)

isRangeAvailableAllRecords(startNumber, endNumber, asgs) ==
    ~\E i \in DOMAIN asgs :
        /\ asgs[i].startNumber <= endNumber
        /\ asgs[i].endNumber >= startNumber

isRangeAvailable(startNumber, endNumber, asgs) ==
    ~\E i \in DOMAIN asgs :
        /\ asgs[i].isActive
        /\ asgs[i].startNumber <= endNumber
        /\ asgs[i].endNumber >= startNumber

\* the entity's active assignments, as indices into the collection
OwnedActive(assignmentType, entityId, asgs) ==
    {i \in DOMAIN asgs :
        /\ asgs[i].isActive
        /\ IF assignmentType = "office_user"
           THEN asgs[i].assignmentType = "office_user" /\ asgs[i].officeUserId = entityId
           ELSE asgs[i].corporateId = entityId}

\* the entity's usage records, keyed the way the entity's own "use" route
\* looks for a duplicate
UsedNumbers(assignmentType, entityId, uses) ==
    {uses[i].consignmentNumber : i \in
        {j \in DOMAIN uses :
            IF assignmentType = "office_user"
            THEN uses[j].assignmentType = "office_user" /\ uses[j].entityId = entityId
            ELSE uses[j].corporateId = entityId}}

\* the owned active assignments sorted by ascending startNumber
RECURSIVE SortedByStart(_, _)
SortedByStart(idx, asgs) ==
    IF idx = {} THEN <<>>
    ELSE LET first == CHOOSE i \in idx :
                        \A j \in idx :
                            \/ asgs[i].startNumber < asgs[j].startNumber
                            \/ asgs[i].startNumber = asgs[j].startNumber /\ i <= j
         IN  <<asgs[first]>> \o SortedByStart(idx \ {first}, asgs)

\* first number of n..endNumber that is not used, 0 when there is none
RECURSIVE ScanRange(_, _, _)
ScanRange(n, endNumber, used) ==
    IF n > endNumber THEN 0
    ELSE IF n \notin used THEN n
    ELSE ScanRange(n + 1, endNumber, used)

RECURSIVE ScanRanges(_, _)
ScanRanges(ranges, used) ==
    IF ranges = <<>> THEN 0
    ELSE LET n == ScanRange(Head(ranges).startNumber, Head(ranges).endNumber, used)
         IN  IF n # 0 THEN n ELSE ScanRanges(Tail(ranges), used)

\* 0 stands for the thrown "no consignment numbers available" error
getNextConsignmentNumber(assignmentType, entityId, asgs, uses) ==
    ScanRanges(SortedByStart(OwnedActive(assignmentType, entityId, asgs), asgs),
               UsedNumbers(assignmentType, entityId, uses))

(***************************************************************************)
(* Documents the routes create                                             *)
(***************************************************************************)
AssignmentTotalAsDifference(assignmentType, corporateId, officeUserId, startNumber, endNumber) ==
    [assignmentType |-> assignmentType,
     corporateId    |-> corporateId,
     officeUserId   |-> officeUserId,
     startNumber    |-> startNumber,
     endNumber      |-> endNumber,
     totalNumbers   |-> endNumber - startNumber,
     isActive       |-> DefaultIsActive]

\* new ConsignmentAssignment({startNumber: parseInt(startNumber), endNumber:
\* parseInt(endNumber), totalNumbers: parseInt(endNumber) - parseInt(startNumber) + 1})
Assignment(assignmentType, corporateId, officeUserId, startNumber, endNumber) ==
    [assignmentType |-> assignmentType,
     corporateId    |-> corporateId,
     officeUserId   |-> officeUserId,
     startNumber    |-> startNumber,
     endNumber      |-> endNumber,
     totalNumbers   |-> endNumber - startNumber + 1,
     isActive       |-> DefaultIsActive]

\* new ConsignmentAssignment({corporateId, ...}) of the admin route: no assignmentType
AdminCorporateAssignment(corporateId, startNumber, endNumber) ==
    Assignment(DefaultAssignmentType, corporateId, None, startNumber, endNumber)

AdminOfficeUserAssignment(officeUserId, startNumber, endNumber) ==
    Assignment("office_user", None, officeUserId, startNumber, endNumber)

OfficeCorporateAssignment(corporateId, startNumber, endNumber) ==
    Assignment("corporate", corporateId, None, startNumber, endNumber)

OfficeOfficeUserAssignment(officeUserId, startNumber, endNumber) ==
    Assignment("office_user", None, officeUserId, startNumber, endNumber)

\* invoiceId of a usage record that no invoice has marked; the _id of an
\* invoice is its position in the collection, from 1
NoInvoice == 0

\* paymentType of a ConsignmentUsage whose creator names none
DefaultPaymentType == "FP"

\* Date.now as the default of usedAt reads it, counted in bookings: later than
\* the usedAt of every usage record of the store
RECURSIVE LatestUsedAt(_)
LatestUsedAt(uses) ==
    IF uses = <<>> THEN 0
    ELSE LET rest == LatestUsedAt(Tail(uses))
         IN  IF Head(uses).usedAt > rest THEN Head(uses).usedAt ELSE rest

\* the fields no route under src/ gives a new ConsignmentUsage: the schema
\* fills them in
UsageDefaults ==
    [status        |-> "active",
     paymentStatus |-> "unpaid",
     paymentType   |-> DefaultPaymentType,
     usedAt        |-> LatestUsedAt(usages) + 1,
     invoiceId     |-> NoInvoice]

AdminUsageEntityOnly(corporateId, consignmentNumber) ==
    [assignmentType    |-> "corporate",
     entityId          |-> corporateId,
     corporateId       |-> None,
     officeUserId      |-> None,
     consignmentNumber |-> consignmentNumber] @@ UsageDefaults

AdminUsageInvoiced(corporateId, consignmentNumber) ==
    [assignmentType    |-> DefaultAssignmentType,
     entityId          |-> None,
     corporateId       |-> corporateId,
     officeUserId      |-> None,
     consignmentNumber |-> consignmentNumber,
     status            |-> "invoiced",
     paymentStatus     |-> "unpaid",
     paymentType       |-> DefaultPaymentType,
     usedAt            |-> LatestUsedAt(usages) + 1,
     invoiceId         |-> NoInvoice]

\* new ConsignmentUsage({corporateId, consignmentNumber, ...}) of the admin route
AdminUsage(corporateId, consignmentNumber) ==
    [assignmentType    |-> DefaultAssignmentType,
     entityId          |-> None,
     corporateId       |-> corporateId,
     officeUserId      |-> None,
     consignmentNumber |-> consignmentNumber] @@ UsageDefaults

OfficeUsageNoEntity(user, consignmentNumber) ==
    [assignmentType    |-> "office_user",
     entityId          |-> None,
     corporateId       |-> None,
     officeUserId      |-> user,
     consignmentNumber |-> consignmentNumber] @@ UsageDefaults

OfficeUsage(user, consignmentNumber) ==
    [assignmentType    |-> "office_user",
     entityId          |-> user,
     corporateId       |-> None,
     officeUserId      |-> user,
     consignmentNumber |-> consignmentNumber] @@ UsageDefaults

(***************************************************************************)
(* Queries of the "use" routes                                             *)
(***************************************************************************)
\* ConsignmentUsage.findOne({corporateId, consignmentNumber})
AdminFindUsage(corporateId, n, uses) ==
    \E i \in DOMAIN uses :
        uses[i].corporateId = corporateId /\ uses[i].consignmentNumber = n

AdminFindAssignmentAnyOwner(corporateId, n, asgs) ==
    \E i \in DOMAIN asgs :
        /\ asgs[i].isActive
        /\ asgs[i].startNumber <= n
        /\ asgs[i].endNumber >= n

\* ConsignmentAssignment.findOne({corporateId, isActive: true, startNumber <= n <= endNumber})
AdminFindAssignment(corporateId, n, asgs) ==
    \E i \in DOMAIN asgs :
        /\ asgs[i].corporateId = corporateId
        /\ asgs[i].isActive
        /\ asgs[i].startNumber <= n
        /\ asgs[i].endNumber >= n

OfficeFindAssignmentAnyRange(user, n, asgs) ==
    \E i \in DOMAIN asgs :
        /\ asgs[i].assignmentType = "office_user"
        /\ asgs[i].officeUserId = user
        /\ asgs[i].isActive

\* ConsignmentAssignment.findOne({assignmentType: 'office_user', officeUserId, isActive: true, ...})
OfficeFindAssignment(user, n, asgs) ==
    \E i \in DOMAIN asgs :
        /\ asgs[i].assignmentType = "office_user"
        /\ asgs[i].officeUserId = user
        /\ asgs[i].isActive
        /\ asgs[i].startNumber <= n
        /\ asgs[i].endNumber >= n

\* ConsignmentUsage.findOne({assignmentType: 'office_user', entityId, consignmentNumber})
OfficeFindUsage(user, n, uses) ==
    \E i \in DOMAIN uses :
        /\ uses[i].assignmentType = "office_user"
        /\ uses[i].entityId = user
        /\ uses[i].consignmentNumber = n

(***************************************************************************)
(* Statistics the routes compute                                           *)
(***************************************************************************)
Min(S) == CHOOSE n \in S : \A m \in S : n <= m

\* what JSON shows for Math.round(NaN) and Math.round(Infinity)
Null == 0 - 1

\* Math.round((used / assigned) * 100), counts being integers >= 0
MathRoundPercentage(used, assigned) ==
    IF assigned = 0 THEN Null ELSE (200 * used + assigned) \div (2 * assigned)

\* assigned > 0 ? Math.round((used / assigned) * 100) : 0
GuardedPercentage(used, assigned) ==
    IF assigned > 0 THEN MathRoundPercentage(used, assigned) ELSE 0

\* assignments.reduce((sum, assignment) => sum + assignment.totalNumbers, 0)
RECURSIVE SumTotalNumbers(_, _)
SumTotalNumbers(idx, asgs) ==
    IF idx = {} THEN 0
    ELSE LET i == CHOOSE j \in idx : TRUE
         IN  asgs[i].totalNumbers + SumTotalNumbers(idx \ {i}, asgs)

\* one statistics block of an answer: of an entity (assignment = 0) or of one
\* assignment of the entity (its position in the collection)
Statistics(entity, assignment, totalAssigned, totalUsed, usagePercentage) ==
    [entity          |-> entity,
     assignment      |-> assignment,
     totalAssigned   |-> totalAssigned,
     totalUsed       |-> totalUsed,
     available       |-> totalAssigned - totalUsed,
     usagePercentage |-> usagePercentage]

\* ConsignmentUsage.countDocuments({...filter, consignmentNumber: {$gte, $lte}})
CountInRange(matching, startNumber, endNumber, uses) ==
    Cardinality({j \in matching :
        uses[j].consignmentNumber >= startNumber /\ uses[j].consignmentNumber <= endNumber})

\* {assignmentType: 'office_user', entityId}
UsageOfOfficeEntity(user, uses) ==
    {j \in DOMAIN uses : uses[j].assignmentType = "office_user" /\ uses[j].entityId = user}

\* {assignmentType: 'office_user', officeUserId}
UsageOfOfficeUser(user, uses) ==
    {j \in DOMAIN uses : uses[j].assignmentType = "office_user" /\ uses[j].officeUserId = user}

\* {assignmentType: 'corporate', entityId}
UsageOfCorporateEntity(corporateId, uses) ==
    {j \in DOMAIN uses : uses[j].assignmentType = "corporate" /\ uses[j].entityId = corporateId}

UsageOfAnyCorporate(corporateId, uses) ==
    {j \in DOMAIN uses : uses[j].assignmentType = "corporate"}

\* {assignmentType: 'corporate', corporateId}
UsageOfTypedCorporate(corporateId, uses) ==
    {j \in DOMAIN uses : uses[j].assignmentType = "corporate" /\ uses[j].corporateId = corporateId}

\* {corporateId}
UsageOfCorporate(corporateId, uses) ==
    {j \in DOMAIN uses : uses[j].corporateId = corporateId}

\* GET /consignment/assignments (office): the summary of the office user, no
\* statistics when the user has no active assignment
OfficeSummary(user, asgs, uses) ==
    LET own == {i \in DOMAIN asgs :
                  /\ asgs[i].assignmentType = "office_user"
                  /\ asgs[i].officeUserId = user
                  /\ asgs[i].isActive}
        usedCount == Cardinality(UsageOfOfficeEntity(user, uses))
        totalAssigned == SumTotalNumbers(own, asgs)
    IN  IF own = {} THEN {}
        ELSE {Statistics(user, 0, totalAssigned, usedCount,
                         MathRoundPercentage(usedCount, totalAssigned))}

\* GET /consignment/corporates (office): one block per corporate
OfficeCorporateStatistics(asgs, uses) ==
    {LET own == {i \in DOMAIN asgs : asgs[i].corporateId = c /\ asgs[i].isActive}
         totalAssigned == SumTotalNumbers(own, asgs)
         totalUsed == Cardinality(UsageOfCorporateEntity(c, uses))
     IN  Statistics(c, 0, totalAssigned, totalUsed, GuardedPercentage(totalUsed, totalAssigned))
     : c \in Corporates}

\* ConsignmentAssignment.findOne({corporateId, isActive: true}): the documents
\* that match, of which findOne returns the first
AdminFindOneAssignment(corporateId, asgs) ==
    {i \in DOMAIN asgs : asgs[i].corporateId = corporateId /\ asgs[i].isActive}

\* GET /consignment/usage/:corporateId (admin): the statistics of the
\* assignment found, no statistics when none is found
AdminUsageStatistics(corporateId, asgs, uses) ==
    LET found == AdminFindOneAssignment(corporateId, asgs)
    IN  IF found = {} THEN {}
        ELSE LET assignment == asgs[Min(found)]
                 totalUsage == CountInRange(UsageOfCorporate(corporateId, uses),
                                            assignment.startNumber, assignment.endNumber, uses)
             IN  {Statistics(corporateId, 0, assignment.totalNumbers, totalUsage,
                             MathRoundPercentage(totalUsage, assignment.totalNumbers))}

\* GET /consignment/usage/:corporateId (office): the parameter is the _id of an
\* assignment, here its position in the collection
OfficeUsageStatistics(assignmentId, asgs, uses) ==
    LET assignment == asgs[assignmentId]
        totalUsed == CountInRange(UsageOfCorporateEntity(assignment.corporateId, uses),
                                  assignment.startNumber, assignment.endNumber, uses)
    IN  {Statistics(assignment.corporateId, assignmentId, assignment.totalNumbers, totalUsed,
                    MathRoundPercentage(totalUsed, assignment.totalNumbers))}

\* GET /consignment/assignments (admin): the block of one assignment
AdminAssignmentStatistics(i, asgs, uses) ==
    LET assignment == asgs[i]
        owner == IF assignment.assignmentType = "office_user"
                 THEN assignment.officeUserId ELSE assignment.corporateId
        usedCountInRange ==
            IF assignment.assignmentType = "office_user"
            THEN CountInRange(UsageOfOfficeUser(owner, uses),
                              assignment.startNumber, assignment.endNumber, uses)
            ELSE CountInRange(UsageOfTypedCorporate(owner, uses),
                              assignment.startNumber, assignment.endNumber, uses)
    IN  IF owner = None
        THEN Statistics(owner, i, assignment.totalNumbers, 0, 0)
        ELSE Statistics(owner, i, assignment.totalNumbers, usedCountInRange,
                        MathRoundPercentage(usedCountInRange, assignment.totalNumbers))

\* corporateTotalAssigned, corporateTotalUsed and corporateUsagePercentage of
\* the same answer
AdminCorporateTotals(corporateId, asgs, uses) ==
    LET all == {i \in DOMAIN asgs :
                  /\ asgs[i].assignmentType = "corporate"
                  /\ asgs[i].corporateId = corporateId
                  /\ asgs[i].isActive}
        totalAssignedForCorporate == SumTotalNumbers(all, asgs)
        totalUsedForCorporate == Cardinality(UsageOfTypedCorporate(corporateId, uses))
    IN  Statistics(corporateId, 0, totalAssignedForCorporate, totalUsedForCorporate,
                   GuardedPercentage(totalUsedForCorporate, totalAssignedForCorporate))

AdminAssignmentsStatistics(asgs, uses) ==
    {AdminAssignmentStatistics(i, asgs, uses) : i \in DOMAIN asgs}
    \cup {AdminCorporateTotals(asgs[i].corporateId, asgs, uses) :
             i \in {j \in DOMAIN asgs :
                      asgs[j].assignmentType # "office_user" /\ asgs[j].corporateId # None}}

(***************************************************************************)
(* Responses                                                               *)
(***************************************************************************)
\* the last answer sent, with the request it answers: a and b are startNumber and
\* endNumber of an assign request, a is the consignmentNumber of a use request
\* and the assignment _id of an office usage request; stats are the statistics
\* blocks of the answer; of a settlement request a and b are startDate and
\* endDate, ids the usage records its body names, list the usage records its
\* answer lists and value the _id of the invoice it created
Response(op, route, target, id, a, b, status, error, value) ==
    [op |-> op, route |-> route, target |-> target, id |-> id, a |-> a, b |-> b,
     status |-> status, error |-> error, value |-> value, stats |-> {},
     ids |-> {}, list |-> <<>>]

NoResponse == Response("none", "none", "none", None, 0, 0, 0, "none", 0)

Outcome(status, error) == [status |-> status, error |-> error]

\* what an assign handler decides before its first await
AssignOutcomeSync(permitted, id, startNumber, endNumber) ==
    IF ~permitted THEN Outcome(403, "AccessDenied")
    ELSE IF id = None \/ startNumber = Missing \/ endNumber = Missing
         THEN Outcome(400, "MissingFields")
    ELSE IF ~validateRange(startNumber, endNumber) THEN Outcome(400, "InvalidRange")
    ELSE Outcome(200, "none")

\* what a use handler decides before its first await; the office route has
\* no permission test and takes the entity from the session
UseOutcomeSync(route, permitted, id, n, hasBooking) ==
    IF route = "admin" /\ ~permitted THEN Outcome(403, "AccessDenied")
    ELSE IF (route = "admin" /\ id = None) \/ n = Missing \/ ~hasBooking
         THEN Outcome(400, "MissingFields")
    ELSE Outcome(200, "none")

\* the checks every assign handler makes before it creates the document
AssignOutcomeNoConflictCheck(permitted, id, startNumber, endNumber, exists, asgs) ==
    IF ~permitted THEN Outcome(403, "AccessDenied")
    ELSE IF id = None \/ startNumber = Missing \/ endNumber = Missing
         THEN Outcome(400, "MissingFields")
    ELSE IF ~validateRange(startNumber, endNumber) THEN Outcome(400, "InvalidRange")
    ELSE IF ~exists THEN Outcome(404, "EntityNotFound")
    ELSE Outcome(200, "none")

AssignOutcomeNoRangeValidation(permitted, id, startNumber, endNumber, exists, asgs) ==
    IF ~permitted THEN Outcome(403, "AccessDenied")
    ELSE IF id = None \/ startNumber = Missing \/ endNumber = Missing
         THEN Outcome(400, "MissingFields")
    ELSE IF ~exists THEN Outcome(404, "EntityNotFound")
    ELSE IF ~isRangeAvailable(startNumber, endNumber, asgs) THEN Outcome(409, "RangeConflict")
    ELSE Outcome(200, "none")

AssignOutcomeSameStartOnly(permitted, id, startNumber, endNumber, exists, asgs) ==
    IF ~permitted THEN Outcome(403, "AccessDenied")
    ELSE IF id = None \/ startNumber = Missing \/ endNumber = Missing
         THEN Outcome(400, "MissingFields")
    ELSE IF ~validateRange(startNumber, endNumber) THEN Outcome(400, "InvalidRange")
    ELSE IF ~exists THEN Outcome(404, "EntityNotFound")
    ELSE IF ~isRangeAvailable(startNumber, startNumber, asgs) THEN Outcome(409, "RangeConflict")
    ELSE Outcome(200, "none")

AssignOutcome(permitted, id, startNumber, endNumber, exists, asgs) ==
    IF ~permitted THEN Outcome(403, "AccessDenied")
    ELSE IF id = None \/ startNumber = Missing \/ endNumber = Missing
         THEN Outcome(400, "MissingFields")
    ELSE IF ~validateRange(startNumber, endNumber) THEN Outcome(400, "InvalidRange")
    ELSE IF ~exists THEN Outcome(404, "EntityNotFound")
    ELSE IF ~isRangeAvailable(startNumber, endNumber, asgs) THEN Outcome(409, "RangeConflict")
    ELSE Outcome(200, "none")

AdminUseOutcomeNoDuplicateCheck(permitted, corporateId, n, hasBooking, asgs, uses) ==
    IF ~permitted THEN Outcome(403, "AccessDenied")
    ELSE IF corporateId = None \/ n = Missing \/ ~hasBooking THEN Outcome(400, "MissingFields")
    ELSE IF ~AdminFindAssignment(corporateId, n, asgs) THEN Outcome(400, "OutOfRange")
    ELSE Outcome(200, "none")

AdminUseOutcome(permitted, corporateId, n, hasBooking, asgs, uses) ==
    IF ~permitted THEN Outcome(403, "AccessDenied")
    ELSE IF corporateId = None \/ n = Missing \/ ~hasBooking THEN Outcome(400, "MissingFields")
    ELSE IF AdminFindUsage(corporateId, n, uses) THEN Outcome(409, "DuplicateUsage")
    ELSE IF ~AdminFindAssignment(corporateId, n, asgs) THEN Outcome(400, "OutOfRange")
    ELSE Outcome(200, "none")

OfficeUseOutcome(user, n, hasBooking, asgs, uses) ==
    IF n = Missing \/ ~hasBooking THEN Outcome(400, "MissingFields")
    ELSE IF ~OfficeFindAssignment(user, n, asgs) THEN Outcome(400, "OutOfRange")
    ELSE IF OfficeFindUsage(user, n, uses) THEN Outcome(409, "DuplicateUsage")
    ELSE Outcome(200, "none")

(***************************************************************************)
(* Initial state: no usage, and no assignment or one soft-deleted          *)
(* assignment (the routes only read the isActive flag)                     *)
(***************************************************************************)
\* a handler slot with no request in it
Idle == [pc |-> "idle", op |-> "none", route |-> "none", target |-> "none",
         id |-> None, a |-> 0, b |-> 0]

InitialAssignments ==
    {<<>>} \cup
    {<<[Assignment("corporate", c, None, MinConsignmentNumber, MinConsignmentNumber + 1)
          EXCEPT !.isActive = FALSE]>> : c \in {"c1"}}

Init ==
    /\ assignments \in InitialAssignments
    /\ usages = <<>>
    /\ inflight = [s \in Slots |-> Idle]
    /\ last = NoResponse
    /\ reqNo = 0
    /\ invoices = <<>>
    /\ orders = <<>>
    /\ pricings = <<>>

(***************************************************************************)
(* Spec: the handlers, one request at a time                               *)
(***************************************************************************)
Respond(op, route, target, id, a, b, out, value) ==
    last' = Response(op, route, target, id, a, b, out.status, out.error, value)

AdminAssignSaveBeforeAvailability(permitted, corporateId, startNumber, endNumber) ==
    LET out == AssignOutcome(permitted, corporateId, startNumber, endNumber,
                             corporateId \in Corporates, assignments)
    IN  /\ reqNo < MaxRequests
        /\ reqNo' = reqNo + 1
        /\ assignments' = IF out.status \in {200, 409}
                          THEN Append(assignments,
                                      AdminCorporateAssignment(corporateId, startNumber, endNumber))
                          ELSE assignments
        /\ Respond("assign", "admin", "corporate", corporateId, startNumber, endNumber, out, 0)
        /\ UNCHANGED <<usages, inflight, invoices, orders, pricings>>

\* POST /consignment/assign (admin)
AdminAssign(permitted, corporateId, startNumber, endNumber) ==
    LET out == AssignOutcome(permitted, corporateId, startNumber, endNumber,
                             corporateId \in Corporates, assignments)
    IN  /\ reqNo < MaxRequests
        /\ reqNo' = reqNo + 1
        /\ assignments' = IF out.status = 200
                          THEN Append(assignments,
                                      AdminCorporateAssignment(corporateId, startNumber, endNumber))
                          ELSE assignments
        /\ Respond("assign", "admin", "corporate", corporateId, startNumber, endNumber, out, 0)
        /\ UNCHANGED <<usages, inflight, invoices, orders, pricings>>

\* POST /consignment/assign-office-user (admin)
AdminAssignOfficeUser(permitted, officeUserId, startNumber, endNumber) ==
    LET out == AssignOutcome(permitted, officeUserId, startNumber, endNumber,
                             officeUserId \in OfficeUsers, assignments)
    IN  /\ reqNo < MaxRequests
        /\ reqNo' = reqNo + 1
        /\ assignments' = IF out.status = 200
                          THEN Append(assignments,
                                      AdminOfficeUserAssignment(officeUserId, startNumber, endNumber))
                          ELSE assignments
        /\ Respond("assign", "admin", "office_user", officeUserId, startNumber, endNumber, out, 0)
        /\ UNCHANGED <<usages, inflight, invoices, orders, pricings>>

\* POST /consignment/assign (office)
OfficeAssign(corporateId, startNumber, endNumber) ==
    LET out == AssignOutcome(TRUE, corporateId, startNumber, endNumber,
                             corporateId \in Corporates, assignments)
    IN  /\ reqNo < MaxRequests
        /\ reqNo' = reqNo + 1
        /\ assignments' = IF out.status = 200
                          THEN Append(assignments,
                                      OfficeCorporateAssignment(corporateId, startNumber, endNumber))
                          ELSE assignments
        /\ Respond("assign", "office", "corporate", corporateId, startNumber, endNumber, out, 0)
        /\ UNCHANGED <<usages, inflight, invoices, orders, pricings>>

\* POST /consignment/assign-office-user (office)
OfficeAssignOfficeUser(officeUserId, startNumber, endNumber) ==
    LET out == AssignOutcome(TRUE, officeUserId, startNumber, endNumber,
                             officeUserId \in OfficeUsers, assignments)
    IN  /\ reqNo < MaxRequests
        /\ reqNo' = reqNo + 1
        /\ assignments' = IF out.status = 200
                          THEN Append(assignments,
                                      OfficeOfficeUserAssignment(officeUserId, startNumber, endNumber))
                          ELSE assignments
        /\ Respond("assign", "office", "office_user", officeUserId, startNumber, endNumber, out, 0)
        /\ UNCHANGED <<usages, inflight, invoices, orders, pricings>>

\* POST /consignment/use (admin)
HandleAdminUse(permitted, corporateId, consignmentNumber, hasBooking) ==
    LET out == AdminUseOutcome(permitted, corporateId, consignmentNumber, hasBooking,
                               assignments, usages)
    IN  /\ reqNo' = reqNo + 1
        /\ usages' = IF out.status = 200
                     THEN Append(usages, AdminUsage(corporateId, consignmentNumber))
                     ELSE usages
        /\ Respond("use", "admin", "corporate", corporateId, consignmentNumber, 0, out, 0)
        /\ UNCHANGED <<assignments, inflight, invoices, orders, pricings>>

\* the same handler as a request of Spec
AdminUse(permitted, corporateId, consignmentNumber, hasBooking) ==
    /\ reqNo < MaxRequests
    /\ HandleAdminUse(permitted, corporateId, consignmentNumber, hasBooking)

\* POST /consignment/use (office), req.user._id = user
HandleOfficeUse(user, consignmentNumber, hasBooking) ==
    LET out == OfficeUseOutcome(user, consignmentNumber, hasBooking, assignments, usages)
    IN  /\ reqNo' = reqNo + 1
        /\ usages' = IF out.status = 200
                     THEN Append(usages, OfficeUsage(user, consignmentNumber))
                     ELSE usages
        /\ Respond("use", "office", "office_user", user, consignmentNumber, 0, out, 0)
        /\ UNCHANGED <<assignments, inflight, invoices, orders, pricings>>

\* the same handler as a request of Spec
OfficeUse(user, consignmentNumber, hasBooking) ==
    /\ reqNo < MaxRequests
    /\ HandleOfficeUse(user, consignmentNumber, hasBooking)

\* GET /consignment/next/:corporateId (admin): every error is answered with 400
HandleAdminNext(permitted, corporateId) ==
    LET n == getNextConsignmentNumber("corporate", corporateId, assignments, usages)
        out == IF ~permitted THEN Outcome(403, "AccessDenied")
               ELSE IF n = 0 THEN Outcome(400, "NoAvailableNumbers")
               ELSE Outcome(200, "none")
    IN  /\ reqNo' = reqNo + 1
        /\ Respond("next", "admin", "corporate", corporateId, 0, 0, out, IF out.status = 200 THEN n ELSE 0)
        /\ UNCHANGED <<assignments, usages, inflight, invoices, orders, pricings>>

\* the same handler as a request of Spec
AdminNext(permitted, corporateId) ==
    /\ reqNo < MaxRequests
    /\ HandleAdminNext(permitted, corporateId)

HandleOfficeNextReserving(user) ==
    LET n == getNextConsignmentNumber("office_user", user, assignments, usages)
        out == IF n = 0 THEN Outcome(409, "NoAvailableNumbers") ELSE Outcome(200, "none")
    IN  /\ reqNo' = reqNo + 1
        /\ usages' = IF n = 0 THEN usages ELSE Append(usages, OfficeUsage(user, n))
        /\ Respond("next", "office", "office_user", user, 0, 0, out, n)
        /\ UNCHANGED <<assignments, inflight, invoices, orders, pricings>>

\* GET /consignment/next (office): the thrown error is answered with 409
HandleOfficeNext(user) ==
    LET n == getNextConsignmentNumber("office_user", user, assignments, usages)
        out == IF n = 0 THEN Outcome(409, "NoAvailableNumbers") ELSE Outcome(200, "none")
    IN  /\ reqNo' = reqNo + 1
        /\ Respond("next", "office", "office_user", user, 0, 0, out, n)
        /\ UNCHANGED <<assignments, usages, inflight, invoices, orders, pricings>>

\* the same handler as a request of Spec
OfficeNext(user) ==
    /\ reqNo < MaxRequests
    /\ HandleOfficeNext(user)

RespondStatistics(op, route, target, id, a, out, value, stats) ==
    last' = [Response(op, route, target, id, a, 0, out.status, out.error, value)
                EXCEPT !.stats = stats]

\* GET /consignment/assignments (office), req.user._id = user
OfficeGetAssignments(user) ==
    /\ reqNo < MaxRequests
    /\ reqNo' = reqNo + 1
    /\ RespondStatistics("assignments", "office", "office_user", user, 0, Outcome(200, "none"),
                         0, OfficeSummary(user, assignments, usages))
    /\ UNCHANGED <<assignments, usages, inflight, invoices, orders, pricings>>

\* GET /consignment/corporates (office)
OfficeGetCorporates ==
    /\ reqNo < MaxRequests
    /\ reqNo' = reqNo + 1
    /\ RespondStatistics("corporates", "office", "corporate", None, 0, Outcome(200, "none"),
                         0, OfficeCorporateStatistics(assignments, usages))
    /\ UNCHANGED <<assignments, usages, inflight, invoices, orders, pricings>>

\* GET /consignment/usage/:corporateId (admin)
AdminGetUsage(permitted, corporateId) ==
    LET stats == AdminUsageStatistics(corporateId, assignments, usages)
        out == IF ~permitted THEN Outcome(403, "AccessDenied")
               ELSE IF stats = {} THEN Outcome(404, "AssignmentNotFound")
               ELSE Outcome(200, "none")
    IN  /\ reqNo < MaxRequests
        /\ reqNo' = reqNo + 1
        /\ RespondStatistics("usage", "admin", "corporate", corporateId, 0, out,
                             0, IF out.status = 200 THEN stats ELSE {})
        /\ UNCHANGED <<assignments, usages, inflight, invoices, orders, pricings>>

\* GET /consignment/usage/:corporateId (office): an assignment that has no
\* corporate makes assignment.corporateId._id throw, which the catch answers
OfficeGetUsage(assignmentId) ==
    LET out == IF assignmentId \notin DOMAIN assignments
               THEN Outcome(404, "AssignmentNotFound")
               ELSE IF assignments[assignmentId].corporateId = None
               THEN Outcome(500, "ServerError")
               ELSE Outcome(200, "none")
    IN  /\ reqNo < MaxRequests
        /\ reqNo' = reqNo + 1
        /\ RespondStatistics("usage", "office", "corporate", None, assignmentId, out,
                             0, IF out.status = 200
                                THEN OfficeUsageStatistics(assignmentId, assignments, usages)
                                ELSE {})
        /\ UNCHANGED <<assignments, usages, inflight, invoices, orders, pricings>>

\* GET /consignment/assignments (admin)
AdminGetAssignments(permitted) ==
    LET out == IF ~permitted THEN Outcome(403, "AccessDenied") ELSE Outcome(200, "none")
    IN  /\ reqNo < MaxRequests
        /\ reqNo' = reqNo + 1
        /\ RespondStatistics("assignments", "admin", "none", None, 0, out,
                             0, IF out.status = 200
                                THEN AdminAssignmentsStatistics(assignments, usages)
                                ELSE {})
        /\ UNCHANGED <<assignments, usages, inflight, invoices, orders, pricings>>

AdminCleanupDeleting(permitted) ==
    LET out == IF ~permitted THEN Outcome(403, "AccessDenied") ELSE Outcome(200, "none")
        orphanedCount == Cardinality({i \in DOMAIN assignments :
                                        assignments[i].corporateId \notin Corporates})
    IN  /\ reqNo < MaxRequests
        /\ reqNo' = reqNo + 1
        /\ assignments' = IF out.status = 200
                          THEN SelectSeq(assignments, LAMBDA a : a.corporateId \in Corporates)
                          ELSE assignments
        /\ Respond("cleanup", "admin", "none", None, 0, 0, out,
                   IF out.status = 200 THEN orphanedCount ELSE 0)
        /\ UNCHANGED <<usages, inflight, invoices, orders, pricings>>

\* GET /consignment/cleanup (admin): reports the assignments without a
\* corporate, value is their number
AdminCleanup(permitted) ==
    LET out == IF ~permitted THEN Outcome(403, "AccessDenied") ELSE Outcome(200, "none")
        orphanedCount == Cardinality({i \in DOMAIN assignments :
                                        assignments[i].corporateId \notin Corporates})
    IN  /\ reqNo < MaxRequests
        /\ reqNo' = reqNo + 1
        /\ Respond("cleanup", "admin", "none", None, 0, 0, out,
                   IF out.status = 200 THEN orphanedCount ELSE 0)
        /\ UNCHANGED <<assignments, usages, inflight, invoices, orders, pricings>>

\* GET /consignment/debug (admin): value is the number of usage records
AdminDebug(permitted) ==
    LET out == IF ~permitted THEN Outcome(403, "AccessDenied") ELSE Outcome(200, "none")
    IN  /\ reqNo < MaxRequests
        /\ reqNo' = reqNo + 1
        /\ Respond("debug", "admin", "none", None, 0, 0, out,
                   IF out.status = 200 THEN Len(usages) ELSE 0)
        /\ UNCHANGED <<assignments, usages, inflight, invoices, orders, pricings>>

\* a body that lacks a required field is answered the same whichever field it
\* lacks, and a request without the permission whatever its body
Next ==
    \/ \E id \in Ids, r \in RangeInputs : AdminAssign(TRUE, id, r[1], r[2])
    \/ \E p \in BOOLEAN : AdminAssign(p, None, Missing, Missing)
    \/ \E id \in Ids, r \in RangeInputs : AdminAssignOfficeUser(TRUE, id, r[1], r[2])
    \/ \E p \in BOOLEAN : AdminAssignOfficeUser(p, None, Missing, Missing)
    \/ \E id \in Ids, r \in RangeInputs : OfficeAssign(id, r[1], r[2])
    \/ OfficeAssign(None, Missing, Missing)
    \/ \E id \in Ids, r \in RangeInputs : OfficeAssignOfficeUser(id, r[1], r[2])
    \/ OfficeAssignOfficeUser(None, Missing, Missing)
    \/ \E id \in Ids, n \in EndNumbers : AdminUse(TRUE, id, n, TRUE)
    \/ \E p \in BOOLEAN : AdminUse(p, None, Missing, FALSE)
    \/ \E u \in OfficeUsers, n \in EndNumbers : OfficeUse(u, n, TRUE)
    \/ \E u \in OfficeUsers : OfficeUse(u, Missing, FALSE)
    \/ \E id \in Ids : AdminNext(TRUE, id)
    \/ AdminNext(FALSE, None)
    \/ \E u \in OfficeUsers : OfficeNext(u)
    \/ \E u \in OfficeUsers : OfficeGetAssignments(u)
    \/ OfficeGetCorporates
    \/ \E c \in Corporates : AdminGetUsage(TRUE, c)
    \/ AdminGetUsage(FALSE, None)
    \/ \E i \in 1 .. (Len(assignments) + 1) : OfficeGetUsage(i)
    \/ \E p \in BOOLEAN : AdminGetAssignments(p)
    \/ \E p \in BOOLEAN : AdminCleanup(p)
    \/ \E p \in BOOLEAN : AdminDebug(p)

Spec == Init /\ [][Next]_vars

(***************************************************************************)
(* SpecConc: the writing handlers, one step per database call              *)
(***************************************************************************)
Request(pc, op, route, target, id, a, b) ==
    [pc |-> pc, op |-> op, route |-> route, target |-> target, id |-> id, a |-> a, b |-> b]

\* the store when the concurrent requests arrive: empty, or one range
\* granted to a corporate and one to an office user
SeededAssignments ==
    <<AdminCorporateAssignment("c1", MinConsignmentNumber, MinConsignmentNumber),
      AdminOfficeUserAssignment("u1", MinConsignmentNumber + 1, MinConsignmentNumber + 1)>>

InitConc ==
    /\ assignments \in {<<>>, SeededAssignments}
    /\ usages = <<>>
    /\ inflight = [s \in Slots |-> Idle]
    /\ last = NoResponse
    /\ reqNo = 0
    /\ invoices = <<>>
    /\ orders = <<>>
    /\ pricings = <<>>

\* the handlers in flight are anonymous: a request takes the lowest idle slot
FreeSlot(slot) ==
    /\ inflight[slot].pc = "idle"
    /\ \A t \in Slots : t < slot => inflight[t].pc # "idle"

\* the synchronous head of an assign handler: permission, required fields, validateRange
AcceptAssign(slot, route, target, permitted, id, startNumber, endNumber) ==
    LET out == AssignOutcomeSync(permitted, id, startNumber, endNumber)
    IN  /\ FreeSlot(slot)
        /\ reqNo' = reqNo + 1
        /\ IF out.status = 200
           THEN /\ inflight' = [inflight EXCEPT ![slot] =
                       Request("findById", "assign", route, target, id, startNumber, endNumber)]
                /\ UNCHANGED last
           ELSE /\ Respond("assign", route, target, id, startNumber, endNumber, out, 0)
                /\ UNCHANGED inflight
        /\ UNCHANGED <<assignments, usages, invoices, orders, pricings>>

\* the same head as a request of SpecConc
ReceiveAssign(slot, route, target, permitted, id, startNumber, endNumber) ==
    /\ reqNo < MaxConcRequests
    /\ AcceptAssign(slot, route, target, permitted, id, startNumber, endNumber)

\* await CorporateData.findById(corporateId) / await OfficeUser.findById(officeUserId)
StepFindById(slot) ==
    LET r == inflight[slot]
        exists == IF r.target = "corporate" THEN r.id \in Corporates ELSE r.id \in OfficeUsers
    IN  /\ r.pc = "findById"
        /\ IF exists
           THEN /\ inflight' = [inflight EXCEPT ![slot].pc = "isRangeAvailable"]
                /\ UNCHANGED last
           ELSE /\ inflight' = [inflight EXCEPT ![slot] = Idle]
                /\ Respond("assign", r.route, r.target, r.id, r.a, r.b, Outcome(404, "EntityNotFound"), 0)
        /\ UNCHANGED <<assignments, usages, reqNo, invoices, orders, pricings>>

\* await ConsignmentAssignment.isRangeAvailable(start, end)
StepIsRangeAvailable(slot) ==
    LET r == inflight[slot]
    IN  /\ r.pc = "isRangeAvailable"
        /\ IF isRangeAvailable(r.a, r.b, assignments)
           THEN /\ inflight' = [inflight EXCEPT ![slot].pc = "saveAssignment"]
                /\ UNCHANGED last
           ELSE /\ inflight' = [inflight EXCEPT ![slot] = Idle]
                /\ Respond("assign", r.route, r.target, r.id, r.a, r.b, Outcome(409, "RangeConflict"), 0)
        /\ UNCHANGED <<assignments, usages, reqNo, invoices, orders, pricings>>

NewAssignment(route, target, id, startNumber, endNumber) ==
    IF route = "admin"
    THEN IF target = "corporate"
         THEN AdminCorporateAssignment(id, startNumber, endNumber)
         ELSE AdminOfficeUserAssignment(id, startNumber, endNumber)
    ELSE IF target = "corporate"
         THEN OfficeCorporateAssignment(id, startNumber, endNumber)
         ELSE OfficeOfficeUserAssignment(id, startNumber, endNumber)

\* await assignment.save()
StepSaveAssignment(slot) ==
    LET r == inflight[slot]
    IN  /\ r.pc = "saveAssignment"
        /\ assignments' = Append(assignments, NewAssignment(r.route, r.target, r.id, r.a, r.b))
        /\ inflight' = [inflight EXCEPT ![slot] = Idle]
        /\ Respond("assign", r.route, r.target, r.id, r.a, r.b, Outcome(200, "none"), 0)
        /\ UNCHANGED <<usages, reqNo, invoices, orders, pricings>>

\* the synchronous head of a use handler; the admin route then looks for the
\* usage first, the office route for the assignment first
AcceptUse(slot, route, permitted, id, consignmentNumber, hasBooking) ==
    LET out == UseOutcomeSync(route, permitted, id, consignmentNumber, hasBooking)
    IN  /\ FreeSlot(slot)
        /\ reqNo' = reqNo + 1
        /\ IF out.status = 200
           THEN /\ inflight' = [inflight EXCEPT ![slot] =
                       Request(IF route = "admin" THEN "findUsage" ELSE "findAssignment",
                               "use", route,
                               IF route = "admin" THEN "corporate" ELSE "office_user",
                               id, consignmentNumber, 0)]
                /\ UNCHANGED last
           ELSE /\ Respond("use", route, IF route = "admin" THEN "corporate" ELSE "office_user", id, consignmentNumber, 0, out, 0)
                /\ UNCHANGED inflight
        /\ UNCHANGED <<assignments, usages, invoices, orders, pricings>>

\* the same head as a request of SpecConc
ReceiveUse(slot, route, permitted, id, consignmentNumber, hasBooking) ==
    /\ reqNo < MaxConcRequests
    /\ AcceptUse(slot, route, permitted, id, consignmentNumber, hasBooking)

\* await ConsignmentUsage.findOne({..., consignmentNumber})
StepFindUsage(slot) ==
    LET r == inflight[slot]
        found == IF r.route = "admin" THEN AdminFindUsage(r.id, r.a, usages)
                 ELSE OfficeFindUsage(r.id, r.a, usages)
    IN  /\ r.pc = "findUsage"
        /\ IF found
           THEN /\ inflight' = [inflight EXCEPT ![slot] = Idle]
                /\ Respond("use", r.route, r.target, r.id, r.a, 0, Outcome(409, "DuplicateUsage"), 0)
           ELSE /\ inflight' = [inflight EXCEPT ![slot].pc =
                                   IF r.route = "admin" THEN "findAssignment" ELSE "saveUsage"]
                /\ UNCHANGED last
        /\ UNCHANGED <<assignments, usages, reqNo, invoices, orders, pricings>>

\* await ConsignmentAssignment.findOne({..., isActive: true, startNumber, endNumber})
StepFindAssignment(slot) ==
    LET r == inflight[slot]
        found == IF r.route = "admin" THEN AdminFindAssignment(r.id, r.a, assignments)
                 ELSE OfficeFindAssignment(r.id, r.a, assignments)
    IN  /\ r.pc = "findAssignment"
        /\ IF found
           THEN /\ inflight' = [inflight EXCEPT ![slot].pc =
                                   IF r.route = "admin" THEN "saveUsage" ELSE "findUsage"]
                /\ UNCHANGED last
           ELSE /\ inflight' = [inflight EXCEPT ![slot] = Idle]
                /\ Respond("use", r.route, r.target, r.id, r.a, 0, Outcome(400, "OutOfRange"), 0)
        /\ UNCHANGED <<assignments, usages, reqNo, invoices, orders, pricings>>

\* await usage.save()
StepSaveUsage(slot) ==
    LET r == inflight[slot]
    IN  /\ r.pc = "saveUsage"
        /\ usages' = Append(usages, IF r.route = "admin" THEN AdminUsage(r.id, r.a)
                                    ELSE OfficeUsage(r.id, r.a))
        /\ inflight' = [inflight EXCEPT ![slot] = Idle]
        /\ Respond("use", r.route, r.target, r.id, r.a, 0, Outcome(200, "none"), 0)
        /\ UNCHANGED <<assignments, reqNo, invoices, orders, pricings>>

\* a request that fails in the synchronous head of its handler is answered
\* before any await and interleaves with nothing: the bodies below are the
\* ranges validateRange accepts and one body without its required fields
NextConc ==
    \/ \E sl \in Slots, rt \in {"admin", "office"}, tg \in {"corporate", "office_user"},
          id \in Ids, r \in ValidRanges :
          ReceiveAssign(sl, rt, tg, TRUE, id, r[1], r[2])
    \/ \E sl \in Slots, tg \in {"corporate", "office_user"} :
          ReceiveAssign(sl, "admin", tg, TRUE, None, Missing, Missing)
    \/ \E sl \in Slots, id \in Ids, n \in EndNumbers : ReceiveUse(sl, "admin", TRUE, id, n, TRUE)
    \/ \E sl \in Slots, u \in OfficeUsers, n \in EndNumbers : ReceiveUse(sl, "office", TRUE, u, n, TRUE)
    \/ \E sl \in Slots : ReceiveUse(sl, "admin", FALSE, None, Missing, FALSE)
    \/ \E sl \in Slots : StepFindById(sl)
    \/ \E sl \in Slots : StepIsRangeAvailable(sl)
    \/ \E sl \in Slots : StepSaveAssignment(sl)
    \/ \E sl \in Slots : StepFindUsage(sl)
    \/ \E sl \in Slots : StepFindAssignment(sl)
    \/ \E sl \in Slots : StepSaveUsage(sl)

SpecConc == InitConc /\ [][NextConc]_vars

(***************************************************************************)
(* SpecRace: SpecConc from the empty store with more requests and fewer    *)
(* bodies: one corporate and one office user are granted ranges that start *)
(* at the minimum and record the usage of the minimum                      *)
(***************************************************************************)
\* requests received in one behaviour of SpecRace
MaxRaceRequests == 4

RaceRanges == {r \in ValidRanges : r[1] = MinConsignmentNumber}

InitRace ==
    /\ assignments = <<>>
    /\ usages = <<>>
    /\ inflight = [s \in Slots |-> Idle]
    /\ last = NoResponse
    /\ reqNo = 0
    /\ invoices = <<>>
    /\ orders = <<>>
    /\ pricings = <<>>

NextRace ==
    \/ \E sl \in Slots, r \in RaceRanges :
          reqNo < MaxRaceRequests /\ AcceptAssign(sl, "admin", "corporate", TRUE, "c1", r[1], r[2])
    \/ \E sl \in Slots, r \in RaceRanges :
          reqNo < MaxRaceRequests /\ AcceptAssign(sl, "admin", "office_user", TRUE, "u1", r[1], r[2])
    \/ \E sl \in Slots :
          reqNo < MaxRaceRequests /\ AcceptUse(sl, "admin", TRUE, "c1", MinConsignmentNumber, TRUE)
    \/ \E sl \in Slots :
          reqNo < MaxRaceRequests /\ AcceptUse(sl, "office", TRUE, "u1", MinConsignmentNumber, TRUE)
    \/ \E sl \in Slots : StepFindById(sl)
    \/ \E sl \in Slots : StepIsRangeAvailable(sl)
    \/ \E sl \in Slots : StepSaveAssignment(sl)
    \/ \E sl \in Slots : StepFindUsage(sl)
    \/ \E sl \in Slots : StepFindAssignment(sl)
    \/ \E sl \in Slots : StepSaveUsage(sl)

SpecRace == InitRace /\ [][NextRace]_vars

(***************************************************************************)
(* Vocabulary of the properties                                            *)
(***************************************************************************)
\* the entity an assignment is granted to
AssignmentOwner(a) ==
    IF a.assignmentType = "office_user" THEN <<"office_user", a.officeUserId>>
    ELSE <<"corporate", a.corporateId>>

\* the entity a usage record belongs to, by its foreign key
UsageOwner(u) ==
    IF u.assignmentType = "office_user" THEN <<"office_user", u.officeUserId>>
    ELSE <<"corporate", u.corporateId>>

ActiveIdx == {i \in DOMAIN assignments : assignments[i].isActive}

RangeOf(a) == a.startNumber .. a.endNumber

\* the numbers of the entity's active ranges / the numbers it has used
OwnedNumbers(entity, asgs) ==
    {n \in Numbers : \E i \in DOMAIN asgs :
        asgs[i].isActive /\ AssignmentOwner(asgs[i]) = entity /\ n \in RangeOf(asgs[i])}

UsageRecords(entity, n, uses) ==
    {i \in DOMAIN uses : UsageOwner(uses[i]) = entity /\ uses[i].consignmentNumber = n}

FreeNumbers(entity, asgs, uses) ==
    {n \in OwnedNumbers(entity, asgs) : UsageRecords(entity, n, uses) = {}}

Entities == {<<"corporate", c>> : c \in Corporates} \cup {<<"office_user", u>> : u \in OfficeUsers}

\* the statistics blocks the entity-level statistics routes report in a state:
\* the summary of every office user (office GET /consignment/assignments),
\* the block of every corporate (office GET /consignment/corporates) and the
\* statistics of every corporate (admin GET /consignment/usage/:corporateId)
EntityStatistics(asgs, uses) ==
    UNION {OfficeSummary(u, asgs, uses) : u \in OfficeUsers}
    \cup OfficeCorporateStatistics(asgs, uses)
    \cup UNION {AdminUsageStatistics(c, asgs, uses) : c \in Corporates}

\* the step answers a request of the given kind
Answers(op) == reqNo' = reqNo + 1 /\ last'.op = op

\* the entity the answered request acts for
Requester(r) == <<r.target, r.id>>

(***************************************************************************)
(* SpecDraw: one client draws the numbers of its range, one request at a   *)
(* time: it asks for the next number, records the usage of the number it   *)
(* was given, and asks again                                               *)
(***************************************************************************)
\* the most requests the drawing client and the other entities can make:
\* two per number of the widest range and the final refusal, one per number
\* left to the others and one more refusal after each of those
MaxDrawRequests == 4 * MaxOffset + 3

\* the store the client starts from: its one active range first, then nothing,
\* a range granted to another entity, or a soft-deleted range of its own
DrawGrant(e, r) == NewAssignment("admin", e[1], e[2], r[1], r[2])

DrawStores ==
    {<<DrawGrant(e, r)>> : e \in Entities, r \in ValidRanges}
    \cup {<<DrawGrant(x[1], x[3]), DrawGrant(x[2], x[4])>> :
            x \in {y \in Entities \X Entities \X ValidRanges \X ValidRanges :
                     /\ y[1] # y[2]
                     /\ isRangeAvailable(y[4][1], y[4][2], <<DrawGrant(y[1], y[3])>>)}}
    \cup {<<DrawGrant(e, r), [DrawGrant(e, q) EXCEPT !.isActive = FALSE]>> :
            e \in Entities, r \in ValidRanges, q \in ValidRanges}

InitDraw ==
    /\ assignments \in DrawStores
    /\ usages = <<>>
    /\ inflight = [s \in Slots |-> Idle]
    /\ last = NoResponse
    /\ reqNo = 0
    /\ invoices = <<>>
    /\ orders = <<>>
    /\ pricings = <<>>

\* the drawing client is the owner of the first assignment
Drawer == AssignmentOwner(assignments[1])

\* GET /consignment/next by the drawing client, on the route of its kind
DrawNext ==
    /\ reqNo < MaxDrawRequests
    /\ last.op # "next"
    /\ IF Drawer[1] = "office_user"
       THEN HandleOfficeNext(Drawer[2])
       ELSE HandleAdminNext(TRUE, Drawer[2])

\* POST /consignment/use of the number the client was just given
DrawUse ==
    /\ reqNo < MaxDrawRequests
    /\ last.op = "next"
    /\ last.status = 200
    /\ IF Drawer[1] = "office_user"
       THEN HandleOfficeUse(Drawer[2], last.value, TRUE)
       ELSE HandleAdminUse(TRUE, Drawer[2], last.value, TRUE)

\* between two rounds of the client another entity records the usage of a
\* free number of its own
OtherUse(e, n) ==
    /\ reqNo < MaxDrawRequests
    /\ e # Drawer
    /\ last.op # "next"
    /\ n \in FreeNumbers(e, assignments, usages)
    /\ IF e[1] = "office_user"
       THEN HandleOfficeUse(e[2], n, TRUE)
       ELSE HandleAdminUse(TRUE, e[2], n, TRUE)

NextDraw ==
    \/ DrawNext
    \/ DrawUse
    \/ \E e \in Entities, n \in EndNumbers : OtherUse(e, n)

\* the client and the others keep sending requests while they have one to send
SpecDraw == InitDraw /\ [][NextDraw]_vars /\ WF_vars(NextDraw)

\* the numbers of the client's usage records, in the order they were created
DrawnNumbers ==
    LET own == SelectSeq(usages, LAMBDA u : UsageOwner(u) = Drawer)
    IN  [i \in 1 .. Len(own) |-> own[i].consignmentNumber]

(***************************************************************************)
(* SpecHighest: the assign routes and GET /consignment/highest, one        *)
(* request at a time                                                       *)
(***************************************************************************)
highestNumberAnyStatus(asgs) ==
    IF DOMAIN asgs = {} THEN 871026571
    ELSE 0 - Min({0 - asgs[i].endNumber : i \in DOMAIN asgs})

\* ConsignmentAssignment.findOne({isActive: true}).sort({endNumber: -1}), and
\* highestAssignment ? highestAssignment.endNumber : 871026571
highestNumber(asgs) ==
    LET active == {i \in DOMAIN asgs : asgs[i].isActive}
    IN  IF active = {} THEN 871026571
        ELSE 0 - Min({0 - asgs[i].endNumber : i \in active})

\* GET /consignment/highest (admin and office): value is highestNumber, a is
\* nextStartNumber
GetHighest(route, permitted) ==
    LET out == IF ~permitted THEN Outcome(403, "AccessDenied") ELSE Outcome(200, "none")
    IN  /\ reqNo < MaxRequests
        /\ reqNo' = reqNo + 1
        /\ Respond("highest", route, "none", None,
                   IF out.status = 200 THEN highestNumber(assignments) + 1 ELSE 0, 0, out,
                   IF out.status = 200 THEN highestNumber(assignments) ELSE 0)
        /\ UNCHANGED <<assignments, usages, inflight, invoices, orders, pricings>>

NextHighest ==
    \/ \E id \in Ids, r \in RangeInputs : AdminAssign(TRUE, id, r[1], r[2])
    \/ \E id \in Ids, r \in RangeInputs : AdminAssignOfficeUser(TRUE, id, r[1], r[2])
    \/ \E id \in Ids, r \in RangeInputs : OfficeAssign(id, r[1], r[2])
    \/ \E id \in Ids, r \in RangeInputs : OfficeAssignOfficeUser(id, r[1], r[2])
    \/ \E route \in {"admin", "office"}, p \in BOOLEAN : GetHighest(route, p)

SpecHighest == Init /\ [][NextHighest]_vars

(***************************************************************************)
(* SpecSettle: the settlement routes (src/GOOGLE_OAUTH_SETUP.md) over the  *)
(* usage records of the bookings and the Invoice collection, one request   *)
(* at a time. The _id of a usage record or of an invoice is its position   *)
(* in its collection, a date is a day number.                              *)
(***************************************************************************)
\* requests received in one behaviour of SpecSettle
MaxSettleRequests == 2

\* the days of the bookings, which are the days a window may name
Dates == 1 .. (MaxOffset + 1)

\* a usage record as a completed booking leaves it: the booking fixes the
\* paymentType (FP is settled by invoice, TP is not)
Booked(corporateId, consignmentNumber, paymentType, usedAt) ==
    [assignmentType    |-> DefaultAssignmentType,
     entityId          |-> None,
     corporateId       |-> corporateId,
     officeUserId      |-> None,
     consignmentNumber |-> consignmentNumber,
     status            |-> "active",
     paymentStatus     |-> "unpaid",
     paymentType       |-> paymentType,
     usedAt            |-> usedAt,
     invoiceId         |-> NoInvoice]

\* the bookings made before the first request, in the order they were made:
\* c2 booked its number, then c1 booked numbers of its range but the last
Bookings ==
    <<<<"c2", MinConsignmentNumber>>>>
    \o [i \in 1 .. MaxOffset |-> <<"c1", MinConsignmentNumber + i - 1>>]

\* the stores these bookings leave: any of them made, one a day, each FP or TP
RECURSIVE BookedStores(_)
BookedStores(k) ==
    IF k = 0 THEN {<<>>}
    ELSE LET shorter == BookedStores(k - 1)
         IN  shorter \cup
             {Append(s, Booked(Bookings[k][1], Bookings[k][2], pt, Len(s) + 1)) :
                s \in shorter, pt \in {"FP", "TP"}}

\* c2 booked under a range that was withdrawn since, c1 holds the numbers now
InitSettle ==
    /\ assignments =
          <<[AdminCorporateAssignment("c2", MinConsignmentNumber, MinConsignmentNumber)
                EXCEPT !.isActive = FALSE],
            AdminCorporateAssignment("c1", MinConsignmentNumber, MinConsignmentNumber + MaxOffset)>>
    /\ usages \in BookedStores(Len(Bookings))
    /\ inflight = [s \in Slots |-> Idle]
    /\ last = NoResponse
    /\ reqNo = 0
    /\ invoices = <<>>
    /\ orders = <<>>
    /\ pricings = <<>>

\* new Invoice({corporateId, invoicePeriod: {startDate, endDate}, shipments, status: 'unpaid'})
Invoice(corporateId, startDate, endDate, shipments) ==
    [corporateId |-> corporateId,
     startDate   |-> startDate,
     endDate     |-> endDate,
     shipments   |-> shipments,
     status      |-> "unpaid"]

markAsInvoicedOverwriting(usageIds, invoiceId, uses) ==
    [i \in DOMAIN uses |->
        IF i \in usageIds
        THEN [uses[i] EXCEPT !.status = "invoiced", !.invoiceId = invoiceId]
        ELSE uses[i]]

\* ConsignmentUsage.markAsInvoiced(usageIds, invoiceId): a record that is
\* invoiced already stays as it is
markAsInvoiced(usageIds, invoiceId, uses) ==
    [i \in DOMAIN uses |->
        IF i \in usageIds /\ uses[i].status # "invoiced"
        THEN [uses[i] EXCEPT !.status = "invoiced", !.invoiceId = invoiceId]
        ELSE uses[i]]

\* the records of a query in the order of the collection
RECURSIVE NaturalOrder(_)
NaturalOrder(idx) ==
    IF idx = {} THEN <<>>
    ELSE <<Min(idx)>> \o NaturalOrder(idx \ {Min(idx)})

\* .sort({usedAt: 1}): ascending usedAt, records of one usedAt in the order
\* of the collection
RECURSIVE SortByUsedAt(_, _)
SortByUsedAt(idx, uses) ==
    IF idx = {} THEN <<>>
    ELSE LET first == CHOOSE i \in idx :
                        \A j \in idx :
                            \/ uses[i].usedAt < uses[j].usedAt
                            \/ uses[i].usedAt = uses[j].usedAt /\ i <= j
         IN  <<first>> \o SortByUsedAt(idx \ {first}, uses)

\* usedAt inside the window; a date the request leaves out bounds nothing
InWindow(usedAt, startDate, endDate) ==
    /\ startDate # Missing => usedAt >= startDate
    /\ endDate # Missing => usedAt <= endDate

\* ConsignmentUsage.findUnpaidForInvoice(corporateId, startDate, endDate)
findUnpaidForInvoice(corporateId, startDate, endDate, uses) ==
    SortByUsedAt({i \in DOMAIN uses :
                    /\ uses[i].corporateId = corporateId
                    /\ uses[i].paymentStatus = "unpaid"
                    /\ uses[i].paymentType = "FP"
                    /\ InWindow(uses[i].usedAt, startDate, endDate)}, uses)

UnpaidActiveFPAnyCorporate(corporateId, uses) ==
    {i \in DOMAIN uses :
        /\ uses[i].paymentStatus = "unpaid"
        /\ uses[i].paymentType = "FP"
        /\ uses[i].status = "active"}

\* {corporateId, paymentStatus: 'unpaid', paymentType: 'FP', status: 'active'}
UnpaidActiveFP(corporateId, uses) ==
    {i \in DOMAIN uses :
        /\ uses[i].corporateId = corporateId
        /\ uses[i].paymentStatus = "unpaid"
        /\ uses[i].paymentType = "FP"
        /\ uses[i].status = "active"}

RespondSettlement(op, route, id, a, b, out, value, ids, list) ==
    last' = [Response(op, route, "corporate", id, a, b, out.status, out.error, value)
                EXCEPT !.ids = ids, !.list = list]

\* POST /generate-invoice (admin): the shipments of the body are billed as
\* they are sent and the records they name are marked
AdminGenerateInvoice(corporateId, startDate, endDate, shipments) ==
    LET out == IF corporateId = None \/ startDate = Missing \/ endDate = Missing
               THEN Outcome(400, "MissingFields")
               ELSE IF corporateId \notin Corporates THEN Outcome(404, "EntityNotFound")
               ELSE IF \E k \in DOMAIN invoices :
                          /\ invoices[k].corporateId = corporateId
                          /\ invoices[k].startDate = startDate
                          /\ invoices[k].endDate = endDate
               THEN Outcome(409, "InvoiceExists")
               ELSE Outcome(200, "none")
        invoiceId == Len(invoices) + 1
    IN  /\ reqNo < MaxSettleRequests
        /\ reqNo' = reqNo + 1
        /\ IF out.status = 200
           THEN /\ invoices' = Append(invoices, Invoice(corporateId, startDate, endDate, shipments))
                /\ usages' = markAsInvoiced(shipments, invoiceId, usages)
           ELSE UNCHANGED <<invoices, usages>>
        /\ RespondSettlement("generate-invoice", "admin", corporateId, startDate, endDate, out,
                             IF out.status = 200 THEN invoiceId ELSE 0, shipments, <<>>)
        /\ UNCHANGED <<assignments, inflight, orders, pricings>>

\* POST /generate-invoice (corporate), req.corporate._id = corporate: the
\* bills of the body that the query finds are billed and marked
CorporateGenerateInvoice(corporate, bills) ==
    LET unpaidShipments == bills \cap UnpaidActiveFP(corporate, usages)
        out == IF bills = {} THEN Outcome(400, "MissingFields")
               ELSE IF unpaidShipments = {} THEN Outcome(404, "NoUnpaidBills")
               ELSE Outcome(200, "none")
        invoiceId == Len(invoices) + 1
        startDate == Min({usages[i].usedAt : i \in unpaidShipments})
        endDate == 0 - Min({0 - usages[i].usedAt : i \in unpaidShipments})
    IN  /\ reqNo < MaxSettleRequests
        /\ reqNo' = reqNo + 1
        /\ IF out.status = 200
           THEN /\ invoices' = Append(invoices, Invoice(corporate, startDate, endDate, unpaidShipments))
                /\ usages' = markAsInvoiced(unpaidShipments, invoiceId, usages)
           ELSE UNCHANGED <<invoices, usages>>
        /\ RespondSettlement("generate-invoice", "corporate", corporate, 0, 0, out,
                             IF out.status = 200 THEN invoiceId ELSE 0, bills, <<>>)
        /\ UNCHANGED <<assignments, inflight, orders, pricings>>

\* GET /unpaid-shipments/:corporateId (admin)
AdminGetUnpaidShipments(corporateId, startDate, endDate) ==
    LET out == IF startDate = Missing \/ endDate = Missing
               THEN Outcome(400, "MissingFields") ELSE Outcome(200, "none")
    IN  /\ reqNo < MaxSettleRequests
        /\ reqNo' = reqNo + 1
        /\ RespondSettlement("unpaid-shipments", "admin", corporateId, startDate, endDate, out, 0, {},
                             IF out.status = 200
                             THEN findUnpaidForInvoice(corporateId, startDate, endDate, usages)
                             ELSE <<>>)
        /\ UNCHANGED <<assignments, usages, inflight, invoices, orders, pricings>>

\* GET /admin/consolidated-invoice?corporateId (admin)
AdminGetConsolidatedInvoice(corporateId) ==
    LET out == IF corporateId = None THEN Outcome(400, "MissingFields") ELSE Outcome(200, "none")
    IN  /\ reqNo < MaxSettleRequests
        /\ reqNo' = reqNo + 1
        /\ RespondSettlement("consolidated-invoice", "admin", corporateId, 0, 0, out, 0, {},
                             IF out.status = 200
                             THEN SortByUsedAt(UnpaidActiveFP(corporateId, usages), usages)
                             ELSE <<>>)
        /\ UNCHANGED <<assignments, usages, inflight, invoices, orders, pricings>>

\* GET /unpaid-bills?page=1&limit&startDate&endDate (corporate): no sort, the
\* first limit records of the query; value is the total the answer reports
CorporateGetUnpaidBills(corporate, limit, startDate, endDate) ==
    LET found == {i \in UnpaidActiveFP(corporate, usages) :
                    InWindow(usages[i].usedAt, startDate, endDate)}
        unpaidShipments == NaturalOrder(found)
    IN  /\ reqNo < MaxSettleRequests
        /\ reqNo' = reqNo + 1
        /\ RespondSettlement("unpaid-bills", "corporate", corporate, startDate, endDate,
                             Outcome(200, "none"), Cardinality(found), {},
                             SubSeq(unpaidShipments, 1,
                                    IF limit < Len(unpaidShipments) THEN limit
                                    ELSE Len(unpaidShipments)))
        /\ UNCHANGED <<assignments, usages, inflight, invoices, orders, pricings>>

\* the shipments of an admin body are none, one or all of the usage records,
\* its period the first day or all days; a page of unpaid bills holds one
\* record or ten (the default), which is every record here; c1 goes on
\* recording the usage of its numbers (POST /consignment/use of the admin)
NextSettle ==
    \/ \E c \in Corporates, e \in {1, Len(Bookings)},
          s \in {{}, DOMAIN usages} \cup {{i} : i \in DOMAIN usages} :
          AdminGenerateInvoice(c, 1, e, s)
    \/ AdminGenerateInvoice("u1", 1, 1, {})
    \/ AdminGenerateInvoice(None, Missing, Missing, {})
    \/ \E c \in Corporates, s \in SUBSET DOMAIN usages : CorporateGenerateInvoice(c, s)
    \/ \E c \in Corporates, e \in Dates : AdminGetUnpaidShipments(c, 1, e)
    \/ \E c \in Corporates : AdminGetUnpaidShipments(c, Missing, Missing)
    \/ \E c \in Corporates : AdminGetConsolidatedInvoice(c)
    \/ AdminGetConsolidatedInvoice(None)
    \/ \E c \in Corporates, l \in {1, 10}, e \in Dates \cup {Missing} :
          CorporateGetUnpaidBills(c, l, IF e = Missing THEN Missing ELSE 1, e)
    \/ \E n \in EndNumbers :
          reqNo < MaxSettleRequests /\ HandleAdminUse(TRUE, "c1", n, TRUE)

SpecSettle == InitSettle /\ [][NextSettle]_vars

(***************************************************************************)
(* SpecOrder: the coloader assignment routes of an order (FormData), one   *)
(* request at a time. models/FormData.js and models/Coloader.js are not    *)
(* part of the sources: an order is the assignmentData the routes read and *)
(* write, a missing field is None, 0 or hasLegAssignments = FALSE.         *)
(***************************************************************************)
\* requests received in one behaviour of SpecOrder
MaxOrderRequests == 3

OrderIds == {"o1"}
Coloaders == {"k1", "k2"}
ActiveColoaders == {"k1"}
LegNumbers == 1 .. 2

\* an order that was booked and never assigned
BookedOrder ==
    [status            |-> "booked",
     assignedColoader  |-> None,
     totalLegs         |-> 0,
     hasLegAssignments |-> FALSE,
     legAssignments    |-> <<>>]

InitOrder ==
    /\ assignments = <<>>
    /\ usages = <<>>
    /\ inflight = [s \in Slots |-> Idle]
    /\ last = NoResponse
    /\ reqNo = 0
    /\ invoices = <<>>
    /\ orders = [o \in OrderIds |-> BookedOrder]
    /\ pricings = <<>>

\* the answer of an order route and the order it leaves; a is legNumber and b
\* totalLegs of the body
RespondOrder(op, orderId, a, b, out, order) ==
    /\ reqNo' = reqNo + 1
    /\ last' = Response(op, "admin", "order", orderId, a, b, out.status, out.error, 0)
    /\ orders' = IF out.status = 200 THEN [orders EXCEPT ![orderId] = order] ELSE orders
    /\ UNCHANGED <<assignments, usages, inflight, invoices, pricings>>

\* the order of the id, a booked one for an id that names none (not written)
OrderOf(orderId) == IF orderId \in DOMAIN orders THEN orders[orderId] ELSE BookedOrder

\* POST /assign-coloader, body {orderId, coloaderId, legNumber = 1,
\* totalLegs = 1, isEditMode = false}
AssignColoader(permitted, orderId, coloaderId, legNumber, totalLegs, isEditMode) ==
    LET out == IF ~permitted THEN Outcome(403, "AccessDenied")
               ELSE IF orderId = None \/ coloaderId = None THEN Outcome(400, "MissingFields")
               ELSE IF orderId \notin DOMAIN orders THEN Outcome(404, "OrderNotFound")
               ELSE IF coloaderId \notin Coloaders THEN Outcome(404, "ColoaderNotFound")
               ELSE IF coloaderId \notin ActiveColoaders THEN Outcome(400, "InactiveColoader")
               ELSE Outcome(200, "none")
        order == OrderOf(orderId)
        legAssignment == [legNumber |-> legNumber, coloaderId |-> coloaderId]
        status == IF legNumber = totalLegs THEN "assigned" ELSE "partially_assigned"
        updatedAssignments ==
            Append(SelectSeq(order.legAssignments, LAMBDA a : a.legNumber # legNumber),
                   legAssignment)
        updatedOrder ==
            IF totalLegs = 1
            THEN IF isEditMode
                 THEN [BookedOrder EXCEPT !.assignedColoader = coloaderId, !.status = "assigned"]
                 ELSE [order EXCEPT !.assignedColoader = coloaderId, !.status = "assigned"]
            ELSE [order EXCEPT !.legAssignments = IF isEditMode THEN updatedAssignments
                                                  ELSE Append(@, legAssignment),
                               !.hasLegAssignments = TRUE,
                               !.totalLegs = totalLegs,
                               !.status = status]
    IN  /\ reqNo < MaxOrderRequests
        /\ RespondOrder("assign-coloader", orderId, legNumber, totalLegs, out, updatedOrder)

\* POST /remove-assignment, body {orderId, legNumber}. Two updates are left
\* to the store and the schema, and go either way (throws): the update that
\* both unsets and sets assignmentData.status, and the read of
\* legAssignments.length on an order whose legAssignments were unset
RemoveAssignment(permitted, orderId, legNumber, throws) ==
    LET order == OrderOf(orderId)
        single == legNumber = 1 /\ order.hasLegAssignments /\ Len(order.legAssignments) = 1
        out == IF ~permitted THEN Outcome(403, "AccessDenied")
               ELSE IF orderId = None \/ legNumber = Missing THEN Outcome(400, "MissingFields")
               ELSE IF orderId \notin DOMAIN orders THEN Outcome(404, "OrderNotFound")
               ELSE IF throws /\ (single \/ ~order.hasLegAssignments)
               THEN Outcome(500, "RemoveFailed")
               ELSE Outcome(200, "none")
        updatedOrder ==
            IF single THEN BookedOrder
            ELSE [order EXCEPT
                     !.legAssignments = SelectSeq(@, LAMBDA a : a.legNumber # legNumber),
                     !.status = IF Len(order.legAssignments) <= 1 THEN "booked"
                                ELSE "partially_assigned"]
    IN  /\ reqNo < MaxOrderRequests
        /\ RespondOrder("remove-assignment", orderId, legNumber, 0, out, updatedOrder)

\* POST /clear-all-assignments, body {orderId}
ClearAllAssignments(permitted, orderId) ==
    LET out == IF ~permitted THEN Outcome(403, "AccessDenied")
               ELSE IF orderId = None THEN Outcome(400, "MissingFields")
               ELSE IF orderId \notin DOMAIN orders THEN Outcome(404, "OrderNotFound")
               ELSE Outcome(200, "none")
    IN  /\ reqNo < MaxOrderRequests
        /\ RespondOrder("clear-all-assignments", orderId, 0, 0, out, BookedOrder)

\* "o2" names no order, "k3" no coloader
NextOrder ==
    \/ \E o \in OrderIds \cup {"o2"}, k \in Coloaders \cup {"k3"}, l \in LegNumbers,
          n \in LegNumbers, e \in BOOLEAN : AssignColoader(TRUE, o, k, l, n, e)
    \/ \E p \in BOOLEAN : AssignColoader(p, None, None, 1, 1, FALSE)
    \/ \E o \in OrderIds \cup {"o2"}, l \in LegNumbers \cup {Missing}, throws \in BOOLEAN :
          RemoveAssignment(TRUE, o, l, throws)
    \/ RemoveAssignment(FALSE, None, Missing, FALSE)
    \/ \E o \in OrderIds \cup {"o2", None}, p \in BOOLEAN : ClearAllAssignments(p, o)

SpecOrder == InitOrder /\ [][NextOrder]_vars

(***************************************************************************)
(* SpecPricing: the public pricing-approval endpoints, one step per await. *)
(* models/CorporatePricing.js is not part of the sources: a proposal is    *)
(* the three fields the endpoints read, a proposal is found by its token   *)
(* for as long as it exists, and approveViaEmail / rejectViaEmail save the *)
(* fields the answers report. A time is the number of requests received,   *)
(* 0 an unset date.                                                        *)
(***************************************************************************)
\* requests received in one behaviour of SpecPricing
MaxPricingRequests == 3

Tokens == {"t1", "t2"}

\* a proposal whose approval email was sent
PendingPricing == [status |-> "pending", emailApprovedAt |-> 0, emailRejectedAt |-> 0]

InitPricing ==
    /\ assignments = <<>>
    /\ usages = <<>>
    /\ inflight = [s \in Slots |-> Idle]
    /\ last = NoResponse
    /\ reqNo = 0
    /\ invoices = <<>>
    /\ orders = <<>>
    /\ pricings = [t \in Tokens |-> PendingPricing]

\* pricing.emailApprovedAt || pricing.emailRejectedAt
Processed(pricing) == pricing.emailApprovedAt # 0 \/ pricing.emailRejectedAt # 0

\* pricing.approveViaEmail(approvedBy)
approveViaEmail(pricing, at) ==
    [pricing EXCEPT !.status = "approved", !.emailApprovedAt = at]

\* pricing.rejectViaEmail(rejectionReason, rejectedBy)
rejectViaEmail(pricing, at) ==
    [pricing EXCEPT !.status = "rejected", !.emailRejectedAt = at]

\* the answer of a pricing-approval endpoint, which leaves its slot
RespondPricing(slot, out) ==
    /\ last' = Response(inflight[slot].op, "public", "pricing", inflight[slot].id, 0, 0,
                        out.status, out.error, 0)
    /\ inflight' = [inflight EXCEPT ![slot] = Idle]

\* GET /public/pricing-approval/:token (op "view") and POST .../approve and
\* .../reject arrive
ReceivePricing(slot, op, token) ==
    /\ FreeSlot(slot)
    /\ reqNo < MaxPricingRequests
    /\ reqNo' = reqNo + 1
    /\ inflight' = [inflight EXCEPT ![slot] =
                       Request("findByApprovalToken", op, "public", "pricing", token, 0, 0)]
    /\ UNCHANGED <<assignments, usages, last, invoices, orders, pricings>>

\* await CorporatePricing.findByApprovalToken(token) and the checks on the
\* document it returns
StepFindByApprovalToken(slot) ==
    LET r == inflight[slot]
    IN  /\ r.pc = "findByApprovalToken"
        /\ IF r.id \notin DOMAIN pricings
           THEN RespondPricing(slot, Outcome(404, "InvalidToken"))
           ELSE IF Processed(pricings[r.id])
           THEN RespondPricing(slot, Outcome(400, "AlreadyProcessed"))
           ELSE IF r.op = "view"
           THEN RespondPricing(slot, Outcome(200, "none"))
           ELSE /\ inflight' = [inflight EXCEPT ![slot].pc =
                                   IF r.op = "approve" THEN "approveViaEmail"
                                   ELSE "rejectViaEmail"]
                /\ UNCHANGED last
        /\ UNCHANGED <<assignments, usages, reqNo, invoices, orders, pricings>>

\* await pricing.approveViaEmail(...) and the answer
StepApproveViaEmail(slot) ==
    /\ inflight[slot].pc = "approveViaEmail"
    /\ pricings' = [pricings EXCEPT ![inflight[slot].id] = approveViaEmail(@, reqNo)]
    /\ RespondPricing(slot, Outcome(200, "none"))
    /\ UNCHANGED <<assignments, usages, reqNo, invoices, orders>>

\* await pricing.rejectViaEmail(...) and the answer
StepRejectViaEmail(slot) ==
    /\ inflight[slot].pc = "rejectViaEmail"
    /\ pricings' = [pricings EXCEPT ![inflight[slot].id] = rejectViaEmail(@, reqNo)]
    /\ RespondPricing(slot, Outcome(200, "none"))
    /\ UNCHANGED <<assignments, usages, reqNo, invoices, orders>>

\* "t3" is the token of no proposal
NextPricing ==
    \/ \E slot \in Slots, op \in {"view", "approve", "reject"}, token \in Tokens \cup {"t3"} :
          ReceivePricing(slot, op, token)
    \/ \E slot \in Slots : StepFindByApprovalToken(slot)
    \/ \E slot \in Slots : StepApproveViaEmail(slot)
    \/ \E slot \in Slots : StepRejectViaEmail(slot)

SpecPricing == InitPricing /\ [][NextPricing]_vars

(***************************************************************************)
(* Properties                                                              *)
(***************************************************************************)

\* C1: with the assign requests (admin and office routes, corporate and
\* office-user targets) executed one at a time, any two distinct active
\* assignments A, B satisfy A.startNumber > B.endNumber or
\* B.startNumber > A.endNumber, whoever owns them.
C1_ActiveRangesDisjoint ==
    \A i \in ActiveIdx, j \in ActiveIdx :
        i # j => \/ assignments[i].startNumber > assignments[j].endNumber
                 \/ assignments[j].startNumber > assignments[i].endNumber

\* two active assignments of a corporate and of an office user exist side by side
C1_Witness ==
    \E i \in ActiveIdx, j \in ActiveIdx :
        /\ assignments[i].assignmentType = "corporate"
        /\ assignments[j].assignmentType = "office_user"
        /\ assignments[j].startNumber = assignments[i].endNumber + 1

\* C2: with the use requests executed one at a time, a use request for a triple
\* (entityType, entityId, consignmentNumber) that already has a Usage record is
\* answered 409 duplicate-usage and adds nothing, a use request answered 200
\* creates the one record of its triple, and no triple ever has two records.
C2_SecondUseRejected ==
    /\ [](\A e \in Entities, n \in Numbers : Cardinality(UsageRecords(e, n, usages)) <= 1)
    /\ [][Answers("use") =>
            LET before == UsageRecords(Requester(last'), last'.a, usages)
                after  == UsageRecords(Requester(last'), last'.a, usages')
            IN  /\ before # {} => /\ last'.status = 409
                                  /\ last'.error = "DuplicateUsage"
                                  /\ usages' = usages
                /\ last'.status = 200 => before = {} /\ Cardinality(after) = 1]_vars

\* a second use of the same number by the same entity has been refused
C2_Witness ==
    /\ last.op = "use"
    /\ last.status = 409
    /\ last.error = "DuplicateUsage"
    /\ UsageRecords(Requester(last), last.a, usages) # {}

\* C3: when two use requests for the same triple interleave at their database
\* calls, only one Usage record of that triple exists afterwards (exactly one
\* of the two requests succeeds).
C3_OneRecordPerTripleInterleaved ==
    \A i \in DOMAIN usages, j \in DOMAIN usages :
        (UsageOwner(usages[i]) = UsageOwner(usages[j])
            /\ usages[i].consignmentNumber = usages[j].consignmentNumber) => i = j

\* C4: when two assign requests with intersecting ranges interleave at their
\* database calls, no state holds two active assignments that share a number.
C4_NoSharedNumberInterleaved ==
    \A i \in ActiveIdx, j \in ActiveIdx :
        i # j => RangeOf(assignments[i]) \cap RangeOf(assignments[j]) = {}

C6_UsageInsideOwnActiveRange ==
    \A k \in DOMAIN usages :
        usages[k].consignmentNumber \in OwnedNumbers(UsageOwner(usages[k]), assignments)

\* a use request has just created a record while another entity holds a range too
C6_Witness ==
    /\ last.op = "use"
    /\ last.status = 200
    /\ Len(usages) >= 1
    /\ \E i \in ActiveIdx : AssignmentOwner(assignments[i]) # Requester(last)

\* C7: a permitted use request with all fields whose number is in no active
\* assignment of the requesting entity is answered 400 out-of-range and
\* creates no Usage record, also when another entity's active assignment
\* holds the number.
C7_OutOfRangeRejected ==
    [][(/\ Answers("use")
        /\ last'.error \notin {"AccessDenied", "MissingFields"}
        /\ last'.a \notin OwnedNumbers(Requester(last'), assignments))
       => /\ last'.status = 400
          /\ last'.error = "OutOfRange"
          /\ usages' = usages]_vars

\* a number of another entity's active range has been refused
C7_Witness ==
    /\ last.op = "use"
    /\ last.status = 400
    /\ last.error = "OutOfRange"
    /\ \E i \in ActiveIdx :
          /\ AssignmentOwner(assignments[i]) # Requester(last)
          /\ last.a \in RangeOf(assignments[i])

\* C8: a permitted assign request with all fields, a range that passes
\* validateRange and an existing target is answered 409 range conflict and
\* leaves the assignments as they were when its range shares a number with an
\* active assignment, whoever owns that assignment.
TargetExists(r) ==
    IF r.target = "corporate" THEN r.id \in Corporates ELSE r.id \in OfficeUsers

C8_ConflictRejected ==
    [][(/\ Answers("assign")
        /\ last'.status # 403
        /\ last'.a # Missing /\ last'.b # Missing
        /\ validateRange(last'.a, last'.b)
        /\ TargetExists(last')
        /\ \E i \in ActiveIdx : RangeOf(assignments[i]) \cap (last'.a .. last'.b) # {})
       => /\ last'.status = 409
          /\ last'.error = "RangeConflict"
          /\ assignments' = assignments]_vars

\* a range that ends inside a range of an entity of the other kind has been refused
C8_Witness ==
    /\ last.op = "assign"
    /\ last.status = 409
    /\ \E i \in ActiveIdx :
          /\ AssignmentOwner(assignments[i])[1] # last.target
          /\ last.a < assignments[i].startNumber
          /\ last.b \in RangeOf(assignments[i])

\* C9: for every candidate range start <= end, isRangeAvailable is true exactly
\* when no active assignment shares a number with it; inactive assignments
\* never count.
C9_AvailableIffNoActiveShare ==
    \A s \in EndNumbers, e \in EndNumbers :
        s <= e =>
            (isRangeAvailable(s, e, assignments)
                <=> \A i \in DOMAIN assignments :
                        assignments[i].isActive => \A n \in s .. e : n \notin RangeOf(assignments[i]))

\* an inactive range is overlapped by an active one granted later; that one
\* makes a candidate sharing only its end point unavailable and leaves the
\* candidate starting right after it available
C9_Witness ==
    \E i \in DOMAIN assignments, j \in ActiveIdx :
        /\ ~assignments[i].isActive
        /\ RangeOf(assignments[i]) \cap RangeOf(assignments[j]) # {}
        /\ assignments[j].endNumber < MinConsignmentNumber + MaxOffset
        /\ ~isRangeAvailable(assignments[j].endNumber, assignments[j].endNumber + 1, assignments)
        /\ isRangeAvailable(assignments[j].endNumber + 1, assignments[j].endNumber + 1, assignments)

\* C10: a permitted next request of an entity that has no active assignment, or
\* whose active ranges are all used, is answered 409 on the admin route and on
\* the office route.
C10_NoNumbersAnswered409 ==
    (/\ last.op = "next"
     /\ last.status # 403
     /\ FreeNumbers(Requester(last), assignments, usages) = {})
    => last.status = 409

C12_NextReservesNothing ==
    /\ []((last.op = "next" /\ last.status = 200) =>
            getNextConsignmentNumber(last.target, last.id, assignments, usages) = last.value)
    /\ [][Answers("next") =>
            /\ assignments' = assignments
            /\ usages' = usages
            /\ (/\ last.op = "next"
                /\ Requester(last) = Requester(last')
                /\ last.status # 403
                /\ last'.status # 403)
               => (last'.value = last.value /\ last'.error = last.error)]_vars

\* a number has been returned to an entity that holds usage records already,
\* and no usage record of that number exists
C12_Witness ==
    /\ last.op = "next"
    /\ last.status = 200
    /\ \E i \in DOMAIN usages : UsageOwner(usages[i]) = Requester(last)
    /\ \A i \in DOMAIN usages : usages[i].consignmentNumber # last.value
    /\ getNextConsignmentNumber(last.target, last.id, assignments, usages) = last.value

\* C13: in every reachable state, no consignment number has usage records that
\* belong to two different entities.
C13_NoNumberUsedByTwoEntities ==
    \A i \in DOMAIN usages, j \in DOMAIN usages :
        usages[i].consignmentNumber = usages[j].consignmentNumber
            => UsageOwner(usages[i]) = UsageOwner(usages[j])

\* C14: in every reachable state and for every entity, the totalUsed that a
\* statistics route reports is at most the totalAssigned it reports, and the
\* available count it reports is not negative.
C14_UsedAtMostAssigned ==
    \A s \in EntityStatistics(assignments, usages) :
        s.totalUsed <= s.totalAssigned /\ s.available >= 0

\* the entity's active assignments, whichever route reports on them
ActiveOf(entityId, asgs) ==
    OwnedActive(IF entityId \in OfficeUsers THEN "office_user" ELSE "corporate", entityId, asgs)

\* C15: every statistics answer about an entity reports totalAssigned as the sum
\* of totalNumbers over all active assignments of that entity and available as
\* totalAssigned - totalUsed, also for an entity that holds several active
\* assignments, so that every successful assign of [s, e] raises the reported
\* totalAssigned by e - s + 1.
C15_TotalAssignedSumsActive ==
    last.status = 200 =>
        \A s \in last.stats :
            s.assignment = 0 =>
                /\ s.totalAssigned = SumTotalNumbers(ActiveOf(s.entity, assignments), assignments)
                /\ s.available = s.totalAssigned - s.totalUsed

\* every statistics block a statistics route reports in a state
AllStatistics(asgs, uses) ==
    EntityStatistics(asgs, uses)
    \cup AdminAssignmentsStatistics(asgs, uses)
    \cup UNION {OfficeUsageStatistics(i, asgs, uses) :
                  i \in {j \in DOMAIN asgs : asgs[j].corporateId # None}}

\* C16: in every reachable state every usagePercentage that a statistics route
\* reports is an integer from 0 to 100, is 0 when the assigned total is 0, and
\* otherwise is the integer nearest to used / assigned * 100 (halves go up).
C16_PercentageRounded ==
    \A s \in AllStatistics(assignments, usages) :
        /\ s.usagePercentage \in 0 .. 100
        /\ IF s.totalAssigned = 0
           THEN s.usagePercentage = 0
           ELSE /\ 2 * s.usagePercentage * s.totalAssigned <= 200 * s.totalUsed + s.totalAssigned
                /\ 200 * s.totalUsed + s.totalAssigned < 2 * (s.usagePercentage + 1) * s.totalAssigned

C18_FailureChangesNothing ==
    [][((Answers("assign") \/ Answers("use")) /\ last'.status # 200)
       => (assignments' = assignments /\ usages' = usages)]_vars

\* an assign request for an unknown target has been answered 404 while the
\* store holds an assignment and a usage record
C18_Witness ==
    /\ last.op = "assign"
    /\ last.status = 404
    /\ last.error = "EntityNotFound"
    /\ ActiveIdx # {}
    /\ usages # <<>>

\* C19: every assignment record has startNumber <= endNumber and
\* totalNumbers = endNumber - startNumber + 1, and every assignment a request
\* creates is the one record added, with the range of the request and
\* isActive = TRUE.
C19_AssignmentWellFormed ==
    /\ [](\A i \in DOMAIN assignments :
            /\ assignments[i].startNumber <= assignments[i].endNumber
            /\ assignments[i].totalNumbers
                  = assignments[i].endNumber - assignments[i].startNumber + 1)
    /\ [][assignments' # assignments =>
            /\ Len(assignments') = Len(assignments) + 1
            /\ SubSeq(assignments', 1, Len(assignments)) = assignments
            /\ assignments'[Len(assignments')].isActive = TRUE
            /\ assignments'[Len(assignments')].startNumber = last'.a
            /\ assignments'[Len(assignments')].endNumber = last'.b]_vars

\* a range of two numbers has just been granted, to an office user, in a store
\* that also holds a soft-deleted assignment
C19_Witness ==
    /\ last.op = "assign"
    /\ last.status = 200
    /\ last.target = "office_user"
    /\ last.b = last.a + 1
    /\ assignments # <<>>
    /\ assignments[Len(assignments)].totalNumbers = 2
    /\ assignments[Len(assignments)].isActive
    /\ \E i \in DOMAIN assignments : ~assignments[i].isActive

\* C20: no request (assign, next, use, statistics, cleanup, debug) deletes an
\* assignment or changes the owner, the startNumber or the endNumber of an
\* assignment that exists: every record keeps its place and these fields, and
\* only its isActive flag is free to change.
C20_AssignmentsKept ==
    [][/\ Len(assignments') >= Len(assignments)
       /\ \A i \in DOMAIN assignments :
             /\ AssignmentOwner(assignments'[i]) = AssignmentOwner(assignments[i])
             /\ assignments'[i].assignmentType = assignments[i].assignmentType
             /\ assignments'[i].corporateId = assignments[i].corporateId
             /\ assignments'[i].officeUserId = assignments[i].officeUserId
             /\ assignments'[i].startNumber = assignments[i].startNumber
             /\ assignments'[i].endNumber = assignments[i].endNumber]_vars

\* the cleanup route has reported an assignment without a corporate, and the
\* assignment is still in the store
C20_Witness ==
    /\ last.op = "cleanup"
    /\ last.status = 200
    /\ last.value >= 1
    /\ \E i \in DOMAIN assignments : assignments[i].corporateId \notin Corporates

\* C21: a usage record is created with status active, paymentStatus unpaid
\* and no invoice; under recordUsage and invoice-generation requests (which
\* call markAsInvoiced) a record's status changes only from active to invoiced,
\* an invoiced record stays invoiced, no record is removed, and the entity
\* and the consignmentNumber of a record never change.
C21_StatusOnlyToInvoiced ==
    /\ [][\A i \in DOMAIN usages' :
            i \notin DOMAIN usages =>
                /\ usages'[i].status = "active"
                /\ usages'[i].paymentStatus = "unpaid"
                /\ usages'[i].invoiceId = NoInvoice]_vars
    /\ [][/\ Len(usages') >= Len(usages)
          /\ \A i \in DOMAIN usages :
                /\ usages'[i].status # usages[i].status
                      => (usages[i].status = "active" /\ usages'[i].status = "invoiced")
                /\ usages[i].status = "invoiced" => usages'[i].status = "invoiced"
                /\ usages'[i].assignmentType = usages[i].assignmentType
                /\ usages'[i].entityId = usages[i].entityId
                /\ usages'[i].corporateId = usages[i].corporateId
                /\ usages'[i].officeUserId = usages[i].officeUserId
                /\ usages'[i].consignmentNumber = usages[i].consignmentNumber]_vars

\* the record a use request created has been invoiced by the invoice just
\* generated
C21_Witness ==
    /\ last.op = "generate-invoice"
    /\ last.status = 200
    /\ \E i \in DOMAIN usages :
          /\ usages[i].consignmentNumber = MinConsignmentNumber + MaxOffset
          /\ usages[i].status = "invoiced"
          /\ usages[i].invoiceId = last.value

C23_ListingsAsFindUnpaid ==
    (/\ last.op \in {"unpaid-shipments", "consolidated-invoice", "unpaid-bills"}
     /\ last.status = 200)
    => last.list = findUnpaidForInvoice(last.id, last.a, last.b, usages)

\* C24: no usage record is among the shipments of two different invoices,
\* whichever routes generated them.
C24_NoUsageInTwoInvoices ==
    \A k1 \in DOMAIN invoices, k2 \in DOMAIN invoices :
        k1 # k2 => invoices[k1].shipments \cap invoices[k2].shipments = {}

\* C28: the corporate generate-invoice route bills, of the bill ids it is
\* sent, exactly those that corporate C owns and that are unpaid, FP and
\* active when read, and marks exactly those; when none of the ids sent
\* remains it answers 404, creates no invoice and marks nothing.
C28_CorporateInvoiceOnlyOwnUnpaid ==
    [][Answers("generate-invoice") /\ last'.route = "corporate" =>
          LET remain == {i \in last'.ids :
                            /\ usages[i].corporateId = last'.id
                            /\ usages[i].paymentStatus = "unpaid"
                            /\ usages[i].paymentType = "FP"
                            /\ usages[i].status = "active"}
          IN  IF remain # {}
              THEN /\ last'.status = 200
                   /\ Len(invoices') = Len(invoices) + 1
                   /\ invoices'[Len(invoices')].corporateId = last'.id
                   /\ invoices'[Len(invoices')].shipments = remain
                   /\ \A i \in DOMAIN usages :
                         IF i \in remain
                         THEN /\ usages'[i].status = "invoiced"
                              /\ usages'[i].invoiceId = Len(invoices')
                         ELSE usages'[i] = usages[i]
              ELSE /\ last'.ids # {} => last'.status = 404
                   /\ last'.status # 200
                   /\ invoices' = invoices
                   /\ usages' = usages]_vars

\* a corporate invoice was generated from bill ids of which one belongs to
\* another corporate and one is not FP: both were dropped
C28_Witness ==
    /\ last.op = "generate-invoice" /\ last.route = "corporate" /\ last.status = 200
    /\ \E i \in last.ids : usages[i].corporateId # last.id /\ usages[i].status = "active"
    /\ \E i \in last.ids : usages[i].corporateId = last.id /\ usages[i].paymentType = "TP"
                           /\ usages[i].status = "active"
    /\ \A i \in invoices[last.value].shipments :
          usages[i].corporateId = last.id /\ usages[i].invoiceId = last.value

\* C25: for every corporate the used-number count of the admin routes
\* (Usage records matched on corporateId) equals the count of the office
\* routes (matched on assignmentType and entityId).
C25_AdminAndOfficeCountsAgree ==
    \A c \in Corporates :
        \A s \in OfficeCorporateStatistics(assignments, usages) :
            s.entity = c =>
                s.totalUsed = AdminCorporateTotals(c, assignments, usages).totalUsed

\* C26: a recorded usage of entity A changes neither the next consignment
\* number nor the usage count nor the available count of any other entity B,
\* and a usage request of an office user creates at most one record, owned
\* by that office user.
C26_UsageIsolated ==
    [][Answers("use") =>
          LET A == IF last'.route = "office" THEN <<"office_user", last'.id>>
                   ELSE <<"corporate", last'.id>>
              blocks(B, asgs, uses) ==
                  IF B[1] = "office_user" THEN OfficeSummary(B[2], asgs, uses)
                  ELSE AdminUsageStatistics(B[2], asgs, uses)
                       \cup {AdminCorporateTotals(B[2], asgs, uses)}
                       \cup {s \in OfficeCorporateStatistics(asgs, uses) : s.entity = B[2]}
          IN  /\ \A B \in Entities \ {A} :
                    /\ getNextConsignmentNumber(B[1], B[2], assignments', usages')
                          = getNextConsignmentNumber(B[1], B[2], assignments, usages)
                    /\ blocks(B, assignments', usages') = blocks(B, assignments, usages)
              /\ last'.route = "office" =>
                    \/ usages' = usages
                    \/ /\ Len(usages') = Len(usages) + 1
                       /\ SubSeq(usages', 1, Len(usages)) = usages
                       /\ usages'[Len(usages')].assignmentType = "office_user"
                       /\ usages'[Len(usages')].officeUserId = last'.id
                       /\ usages'[Len(usages')].entityId = last'.id
                       /\ usages'[Len(usages')].corporateId = None]_vars

\* an office user recorded a number of its own while a corporate holds a
\* number that is still free
C26_Witness ==
    /\ last.op = "use" /\ last.route = "office" /\ last.status = 200
    /\ \E c \in Corporates :
          /\ AdminCorporateTotals(c, assignments, usages).totalAssigned > 0
          /\ getNextConsignmentNumber("corporate", c, assignments, usages) # 0

\* the quantities of the assignment form tried after a highest-number lookup
Quantities == 1 .. (MaxOffset + 1)

\* C27: GET /consignment/highest answers the largest endNumber of the active
\* assignments as highestNumber, 871026571 when there is none, and
\* highestNumber + 1 as nextStartNumber; in every reachable state a range
\* that starts at that nextStartNumber passes validateRange and
\* isRangeAvailable.
C27_HighestIsFree ==
    /\ last.op = "highest" /\ last.status = 200 =>
          /\ \A i \in ActiveIdx : assignments[i].endNumber <= last.value
          /\ IF ActiveIdx = {} THEN last.value = 871026571
             ELSE \E i \in ActiveIdx : assignments[i].endNumber = last.value
          /\ last.a = last.value + 1
    /\ \A q \in Quantities :
          LET nextStartNumber == highestNumber(assignments) + 1
          IN  /\ validateRange(nextStartNumber, nextStartNumber + q - 1)
              /\ isRangeAvailable(nextStartNumber, nextStartNumber + q - 1, assignments)

\* the lookup was answered with two active assignments in the store
C27_Witness ==
    /\ last.op = "highest" /\ last.status = 200
    /\ Cardinality(ActiveIdx) = 2
    /\ last.value > MinConsignmentNumber

\* C29: after any sequence of assign-coloader, remove-assignment and
\* clear-all-assignments requests the legAssignments of every order hold at
\* most one entry per legNumber, and after clear-all-assignments the order
\* has no leg assignments and status booked.
C29_OneEntryPerLeg ==
    \A o \in DOMAIN orders :
        /\ \A i \in DOMAIN orders[o].legAssignments, j \in DOMAIN orders[o].legAssignments :
              orders[o].legAssignments[i].legNumber = orders[o].legAssignments[j].legNumber
                  => i = j
        /\ last.op = "clear-all-assignments" /\ last.status = 200 /\ last.id = o =>
              orders[o].legAssignments = <<>> /\ orders[o].status = "booked"

\* C30: a pricing proposal is processed through its token at most once: a
\* token request that is answered when the proposal has been approved or
\* rejected through the token is answered 400 and leaves the proposal as it
\* is, however the requests of the two endpoints interleave.
C30_ProcessedOnce ==
    [][\A slot \in Slots :
          /\ inflight[slot].pc # "idle"
          /\ inflight'[slot].pc = "idle"
          /\ inflight[slot].id \in DOMAIN pricings
          /\ Processed(pricings[inflight[slot].id])
          => last'.status = 400 /\ pricings' = pricings]_vars

====
